---- MODULE Spec2Model ----
(***************************************************************************)
(* Model of the edge-insights IoT platform core:                           *)
(*   - the WebSocket connection hub (server/internal/ws/handler.go):       *)
(*     one goroutine per connection running HandleWebSocket, the shared    *)
(*     registry h.clients guarded by h.clientsMutex, broadcastToClients;   *)
(*   - the query classifier AIService.determineQueryType.                  *)
(***************************************************************************)
EXTENDS Integers, Sequences, FiniteSets, Bags, TLC

(***************************************************************************)
(* Bounds of the model.                                                    *)
(***************************************************************************)
\* total number of messages read by all ingress loops together
MaxMsgs == 2

\* the observer connections: the sender and observers A, B, C of the hub's
\* fan-out scenarios; each is upgraded at most once
Conns == {"A", "B", "C"}

(***************************************************************************)
(* Values.                                                                 *)
(***************************************************************************)
\* the zero time.Time, for which Time.IsZero() holds
ZeroTime == 0
\* the value time.Now() returns
NowTime == 2
\* a non-zero timestamp supplied by a device
DeviceTime == 1

Times == {ZeroTime, DeviceTime}
DeviceIDs == {"", "d1", "d2"}
LogTypes == {"", "ERROR"}
Messages == {"", "sensor malfunction"}

\* RawValue *float64: the nil pointer, or a pointer to a value
NilValue == <<>>
RawValues == {NilValue, <<21>>}

\* types.LogMessage after json.Unmarshal (absent fields are zero values)
LogMessage ==
    [time : Times, device_id : DeviceIDs, log_type : LogTypes, message : Messages,
     raw_value : RawValues]

\* the zero value of types.LogMessage
NoLog == [time |-> ZeroTime, device_id |-> "", log_type |-> "", message |-> "",
          raw_value |-> NilValue]

\* a frame whose payload json.Unmarshal rejects
BadJSON == [valid |-> FALSE, log |-> NoLog]

\* what conn.ReadMessage can deliver: a JSON object, or bytes that do not decode
AllWireMessages == {[valid |-> TRUE, log |-> l] : l \in LogMessage} \cup {BadJSON}

\* the messages the hub's connections are sent in Spec: text logs of device d1
\* (or of no device) without a numeric value, and bytes that do not decode
WireMessages ==
    {w \in AllWireMessages :
        w.valid => /\ w.log.device_id \in {"", "d1"}
                   /\ w.log.message = "sensor malfunction"
                   /\ w.log.raw_value = NilValue}

\* json.Unmarshal(message, &logMsg): the error ("" is nil) and the decoded struct
Unmarshal(message) ==
    IF message.valid THEN [err |-> "", logMsg |-> message.log]
    ELSE [err |-> "invalid character", logMsg |-> NoLog]

VARIABLES
    pc,               \* position of each connection's HandleWebSocket goroutine
    clients,          \* h.clients, the registry (set of registered connections)
    rlock,            \* goroutines holding h.clientsMutex.RLock
    todo,             \* per goroutine: clients the range loop has not visited yet
    clientsToRemove,  \* per goroutine: clients whose broadcast write failed
    cur,              \* per goroutine: its local logMsg while it is broadcast
    sent,             \* per goroutine: the bag of frames it wrote, and to whom,
                      \* since it read its current message
    store,            \* rows of sensor_readings inserted by StoreSensorReading;
                      \* the table has no key, so equal readings are rows of
                      \* their own, told apart by the field copy (1, 2, ...)
    broken,           \* per connection: a write to it has failed (the error is sticky)
    closed,           \* per connection: conn.Close() was called
    nmsgs,            \* number of messages read so far
    loopErr,          \* per goroutine: the error its sendError is about to report
                      \* ("" when none is pending)
    writer            \* the goroutine inside h.clientsMutex.Lock(): it keeps other
                      \* writers and new readers out while it waits for the
                      \* readers to leave ("" when none)

hubVars == <<pc, clients, rlock, todo, clientsToRemove, cur, sent, store,
             broken, closed, nmsgs, loopErr, writer>>

VARIABLES
    query,            \* the text handed to determineQueryType
    nwords,           \* number of words the text was built from
    queryType,        \* what determineQueryType returned for query ("": not called)
    prevType,         \* what it returned for the text before a keyword was added
    added             \* the keyword occurrence added last: the keyword k (<<>>:
                      \* none), the number of characters of the text before it,
                      \* and what separates it from the text on either side

qVars == <<query, nwords, queryType, prevType, added>>

VARIABLES
    resp,             \* the HTTP response written last (NoResponse: none pending)
    served            \* the request answered by resp and what its collaborators did

httpVars == <<resp, served>>

VARIABLES
    now,              \* the database clock, in minutes
    nextRun,          \* per continuous aggregate: when its refresh policy runs next
    runs,             \* per continuous aggregate: number of refreshes run
    lastRead,         \* per continuous aggregate: the relation its last refresh read
    mat               \* per continuous aggregate: its materialized rows

aggVars == <<now, nextRun, runs, lastRead, mat>>

VARIABLES
    wlock,            \* the goroutine that holds h.clientsMutex for writing ("": none)
    writing,          \* per connection: the goroutines inside its WriteJSON
    target,           \* per goroutine: the client its broadcast is writing to
    accesses,         \* the accesses to h.clients made so far, with the lock held
    trace             \* per connection: what its handler did, message by message

stepVars == <<wlock, writing, target, accesses, trace>>

vars == <<hubVars, qVars, httpVars, aggVars, stepVars>>

(***************************************************************************)
(* Frames written to a connection.                                         *)
(***************************************************************************)
\* types.LogResponse{Success, Message, Error}
LogResponse(success, message, error) ==
    [type |-> "response", success |-> success, message |-> message,
     error |-> error, data |-> NoLog]

\* map[string]interface{}{"type": "log_entry", "data": logMsg}
LogEntry(logMsg) ==
    [type |-> "log_entry", success |-> FALSE, message |-> "",
     error |-> "", data |-> logMsg]

\* conn.WriteJSON can return nil: no earlier write failed, and conn is open
CanWrite(conn) == ~broken[conn] /\ ~closed[conn]

\* what a goroutine has written once conn.WriteJSON(frame) returned nil (ok)
\* or an error: a frame reaches conn only when the write succeeds
WriteJSON(wrote, conn, frame, ok) ==
    IF ok THEN wrote (+) SetToBag({[to |-> conn, frame |-> frame]}) ELSE wrote

\* the write-error flags after a write to conn returned nil (ok) or an error
AfterWrite(conn, ok) == [broken EXCEPT ![conn] = @ \/ ~ok]

\* sendSuccess(conn, message)
sendSuccess(conn, message, ok) ==
    WriteJSON(EmptyBag, conn, LogResponse(TRUE, message, ""), ok)

\* sendError(conn, errorMsg)
sendError(conn, errorMsg, ok) ==
    WriteJSON(EmptyBag, conn, LogResponse(FALSE, "Error processing log", errorMsg), ok)

(***************************************************************************)
(* validateLogMessage(log types.LogMessage) error.                         *)
(* The parameter is a copy of the caller's struct: .local is the callee's  *)
(* copy when it returns, .err the returned error ("" is nil).              *)
(***************************************************************************)
\* as validateLogMessage, without the check of log_type
validateLogMessage_noLogType(log) ==
    IF log.device_id = "" THEN [err |-> "device_id is required", local |-> log]
    ELSE IF log.time = ZeroTime
         THEN [err |-> "", local |-> [log EXCEPT !.time = NowTime]]
         ELSE [err |-> "", local |-> log]

validateLogMessage(log) ==
    IF log.device_id = "" THEN [err |-> "device_id is required", local |-> log]
    ELSE IF log.log_type = "" THEN [err |-> "log_type is required", local |-> log]
    ELSE IF log.time = ZeroTime
         THEN [err |-> "", local |-> [log EXCEPT !.time = NowTime]]
         ELSE [err |-> "", local |-> log]

\* the logMsg HandleWebSocket holds after validateLogMessage(logMsg) returned:
\* Go passes the struct by value, so the callee's assignment to log.Time is
\* made to the copy and the caller's logMsg is what it was
LogMsgAfterValidate(logMsg) == logMsg

\* db.StoreSensorReading: the rows of the table after the INSERT.  The table
\* RunMigrations builds (migration 003) has no primary key or unique
\* constraint: the reading becomes a new row whatever the table holds, the
\* next copy of the rows that equal it.
StoreSensorReading(reading) ==
    LET copies == {r \in store : \A f \in DOMAIN reading : r[f] = reading[f]}
    IN store \cup {[f \in DOMAIN reading \cup {"copy"} |->
                       IF f = "copy" THEN Cardinality(copies) + 1 ELSE reading[f]]}

\* the error string HandleWebSocket reports for a message ("" when it is accepted)
IngestError(m, dbOk) ==
    IF Unmarshal(m).err # "" THEN "Invalid JSON format"
    ELSE IF validateLogMessage(Unmarshal(m).logMsg).err # ""
         THEN validateLogMessage(Unmarshal(m).logMsg).err
    ELSE IF ~dbOk THEN "Failed to store log"
    ELSE ""

\* where the loop goes after a message was rejected and the error sent: the
\* continue statement, back to ReadMessage
AfterReject(ok) == "continue"

\* as AfterAck, leaving the loop when the acknowledgment could not be written
AfterAck_breakOnWriteError(ok) == IF ok THEN "broadcast" ELSE "closing"

\* as AfterAck, going back to ReadMessage without broadcasting
AfterAck_continue(ok) == "continue"

\* where the loop goes after the acknowledgment of an accepted message
AfterAck(ok) == "broadcast"

HubInit ==
    /\ pc = [c \in Conns |-> "new"]
    /\ clients = {}
    /\ rlock = {}
    /\ todo = [c \in Conns |-> {}]
    /\ clientsToRemove = [c \in Conns |-> {}]
    /\ cur = [c \in Conns |-> NoLog]
    /\ sent = [c \in Conns |-> EmptyBag]
    /\ store = {}
    /\ broken = [c \in Conns |-> FALSE]
    /\ closed = [c \in Conns |-> FALSE]
    /\ nmsgs = 0
    /\ loopErr = [c \in Conns |-> ""]
    /\ writer = ""

QInit ==
    /\ query = <<>>
    /\ nwords = 0
    /\ queryType = ""
    /\ prevType = ""
    /\ added = [k |-> <<>>, at |-> 0, before |-> <<>>, after |-> <<>>]

\* no request has been answered
NoResponse == [op |-> "none"]

\* no request served yet
NoRequest == [req |-> "none"]
HttpInit == resp = NoResponse /\ served = NoRequest

\* the continuous aggregates of migration 009
Views == {"five_min_sensor_averages", "hourly_sensor_averages",
          "daily_sensor_averages", "daily_device_activity"}

\* the policies are added at time 0 and have not run
AggInit ==
    /\ now = 0
    /\ nextRun = [v \in Views |-> 0]
    /\ runs = [v \in Views |-> 0]
    /\ lastRead = [v \in Views |-> ""]
    /\ mat = [v \in Views |-> {}]

\* the mutex is free, nothing is being written
StepInit ==
    /\ wlock = ""
    /\ writing = [c \in Conns |-> {}]
    /\ target = [c \in Conns |-> ""]
    /\ accesses = {}
    /\ trace = [c \in Conns |-> <<>>]

Init == HubInit /\ QInit /\ HttpInit /\ AggInit /\ StepInit

(***************************************************************************)
(* h.clientsMutex.Lock() at lines 63, 85 and 91.  sync.RWMutex.Lock first  *)
(* excludes the other writers, then announces itself to the readers, and   *)
(* then waits until the goroutines that hold the read lock have released   *)
(* it; from the announcement on, RLock blocks.  LockCall is the call up to *)
(* the announcement; the step that follows it (Upgrade, BroadcastRemove,   *)
(* Unregister) is the write-locked section, taken when the readers have    *)
(* left, with the Unlock at its end.  At line 85 the call comes after the  *)
(* upgrade of line 78; at line 63 it is made only when a write failed.     *)
(***************************************************************************)
LockCall(c) ==
    /\ pc[c] \in {"new", "removing", "closing"}
    /\ writer = ""
    /\ writer' = c
    /\ UNCHANGED <<pc, clients, rlock, todo, clientsToRemove, cur, sent, store,
                   broken, closed, nmsgs, loopErr>>
    /\ UNCHANGED <<qVars, httpVars, aggVars, stepVars>>

(***************************************************************************)
(* HandleWebSocket, lines 78-97: upgrade, then register under the write    *)
(* lock (granted only when no goroutine holds the read lock).  A request   *)
(* whose upgrade fails returns at once and leaves no trace in the hub.     *)
(***************************************************************************)
Upgrade(c) ==
    /\ pc[c] = "new"
    /\ writer = c
    /\ rlock = {}
    /\ clients' = clients \cup {c}
    /\ writer' = ""
    /\ pc' = [pc EXCEPT ![c] = "reading"]
    /\ UNCHANGED <<rlock, todo, clientsToRemove, cur, sent, store, broken,
                   closed, nmsgs>>
    /\ UNCHANGED <<loopErr, qVars, httpVars, aggVars, stepVars>>

(***************************************************************************)
(* One iteration of the loop, lines 104-133.  ReadMessage, json.Unmarshal, *)
(* validateLogMessage and storeLog are one step: up to the INSERT they     *)
(* touch only the goroutine's locals.  The reply to the sender is a second *)
(* step, so that other goroutines run between the INSERT and the reply.    *)
(* m is the message read, dbOk whether the INSERT succeeds.                *)
(***************************************************************************)
Ingest(c, m, dbOk) ==
    /\ pc[c] = "reading"
    /\ nmsgs < MaxMsgs
    /\ nmsgs' = nmsgs + 1
    /\ LET logMsg == LogMsgAfterValidate(Unmarshal(m).logMsg)
       IN IF IngestError(m, dbOk) # ""
          THEN /\ loopErr' = [loopErr EXCEPT ![c] = IngestError(m, dbOk)]
               /\ pc' = [pc EXCEPT ![c] = "nack"]
               /\ UNCHANGED <<store, cur>>
          ELSE /\ store' = StoreSensorReading(logMsg)
               /\ cur' = [cur EXCEPT ![c] = logMsg]
               /\ pc' = [pc EXCEPT ![c] = "ack"]
               /\ UNCHANGED loopErr
    /\ UNCHANGED <<clients, rlock, todo, clientsToRemove, sent, broken, closed>>
    /\ UNCHANGED <<writer, qVars, httpVars, aggVars, stepVars>>

\* how a call of conn.WriteJSON ends: it returns nil, it returns an error, or
\* it panics.  gorilla/websocket allows one writer per connection; it panics
\* ("concurrent write to websocket connection") when a write finds another
\* one in progress.  net/http recovers the panic after the handler's
\* deferred functions have run.
WriteOutcomes == {"nil", "error", "panic"}

\* another goroutine is about to write, or is writing, to conn while
\* goroutine c writes to it: conn's own handler is at its sendSuccess or
\* sendError, or a broadcast under the read lock has conn still to visit.
\* No lock orders these writes.
Overlaps(c, conn) ==
    \E d \in Conns \ {c} :
        \/ d = conn /\ pc[d] \in {"ack", "nack"}
        \/ pc[d] = "iterating" /\ conn \in todo[d]

\* lines 114, 121, 128, 133: sendError or sendSuccess writes the reply, and
\* the loop goes on.  A panic of the write leaves HandleWebSocket through
\* its deferred func (lines 90-95).
Respond(c, outcome) ==
    /\ pc[c] \in {"ack", "nack"}
    /\ outcome = "nil" => CanWrite(c)
    /\ outcome = "panic" => Overlaps(c, c)
    /\ IF outcome = "panic"
       THEN /\ pc' = [pc EXCEPT ![c] = "closing"]
            /\ UNCHANGED <<sent, broken>>
       ELSE /\ broken' = AfterWrite(c, outcome = "nil")
            /\ IF pc[c] = "ack"
               THEN /\ sent' = [sent EXCEPT ![c] =
                                  sendSuccess(c, "Log stored successfully", outcome = "nil")]
                    /\ pc' = [pc EXCEPT ![c] = AfterAck(outcome = "nil")]
               ELSE /\ sent' = [sent EXCEPT ![c] =
                                  sendError(c, loopErr[c], outcome = "nil")]
                    /\ pc' = [pc EXCEPT ![c] = AfterReject(outcome = "nil")]
    /\ loopErr' = [loopErr EXCEPT ![c] = ""]
    /\ UNCHANGED <<clients, rlock, todo, clientsToRemove, cur, store, closed, nmsgs>>
    /\ UNCHANGED <<writer, qVars, httpVars, aggVars, stepVars>>

\* lines 115, 122, 129: continue, back to the top of the loop
Continue(c) ==
    /\ pc[c] = "continue"
    /\ pc' = [pc EXCEPT ![c] = "reading"]
    /\ sent' = [sent EXCEPT ![c] = EmptyBag]
    /\ UNCHANGED <<clients, rlock, todo, clientsToRemove, cur, store, broken,
                   closed, nmsgs>>
    /\ UNCHANGED <<loopErr, writer, qVars, httpVars, aggVars, stepVars>>

(***************************************************************************)
(* broadcastToClients, lines 46-69.                                        *)
(***************************************************************************)
\* as BroadcastTargets, a loop that returns after its first client
BroadcastTargets_first(sender) ==
    IF clients = {} THEN {} ELSE {CHOOSE client \in clients : TRUE}

\* the connections `for client := range h.clients` visits
BroadcastTargets(sender) == clients

\* line 47: h.clientsMutex.RLock(), granted while no goroutine holds the write
\* lock or waits for it
BroadcastRLock(c) ==
    /\ pc[c] = "broadcast"
    /\ writer = ""
    /\ rlock' = rlock \cup {c}
    /\ todo' = [todo EXCEPT ![c] = BroadcastTargets(c)]
    /\ clientsToRemove' = [clientsToRemove EXCEPT ![c] = {}]
    /\ pc' = [pc EXCEPT ![c] = "iterating"]
    /\ UNCHANGED <<clients, cur, sent, store, broken, closed, nmsgs>>
    /\ UNCHANGED <<loopErr, writer, qVars, httpVars, aggVars, stepVars>>

\* as RestAfterWrite, a loop that stops at the first failed write
RestAfterWrite_break(rest, client, ok) == IF ok THEN rest \ {client} ELSE {}

\* the clients left to visit after the write to client returned nil (ok) or an error
RestAfterWrite(rest, client, ok) == rest \ {client}

\* lines 52-57: one iteration of the range loop (map order is unspecified).
\* A panic of the write leaves broadcastToClients before the RUnlock of line
\* 59, which is not deferred, and HandleWebSocket through its deferred func.
BroadcastWrite(c, client, outcome) ==
    /\ pc[c] = "iterating"
    /\ client \in todo[c]
    /\ outcome = "nil" => CanWrite(client)
    /\ outcome = "panic" => Overlaps(c, client)
    /\ IF outcome = "panic"
       THEN /\ pc' = [pc EXCEPT ![c] = "closing"]
            /\ UNCHANGED <<sent, broken, clientsToRemove, todo>>
       ELSE /\ sent' = [sent EXCEPT ![c] =
                          WriteJSON(@, client, LogEntry(cur[c]), outcome = "nil")]
            /\ broken' = AfterWrite(client, outcome = "nil")
            /\ clientsToRemove' = [clientsToRemove EXCEPT ![c] =
                                      IF outcome = "nil" THEN @ ELSE @ \cup {client}]
            /\ todo' = [todo EXCEPT ![c] = RestAfterWrite(@, client, outcome = "nil")]
            /\ UNCHANGED pc
    /\ UNCHANGED <<clients, rlock, cur, store, closed, nmsgs>>
    /\ UNCHANGED <<loopErr, writer, qVars, httpVars, aggVars, stepVars>>

\* line 59: h.clientsMutex.RUnlock(), then the test of line 62
BroadcastRUnlock(c) ==
    /\ pc[c] = "iterating"
    /\ todo[c] = {}
    /\ rlock' = rlock \ {c}
    /\ pc' = [pc EXCEPT ![c] = IF clientsToRemove[c] # {} THEN "removing" ELSE "reading"]
    /\ cur' = [cur EXCEPT ![c] = NoLog]
    /\ sent' = [sent EXCEPT ![c] = EmptyBag]
    /\ UNCHANGED <<clients, todo, clientsToRemove, store, broken, closed, nmsgs>>
    /\ UNCHANGED <<loopErr, writer, qVars, httpVars, aggVars, stepVars>>

\* as RemoveFailed, a removal pass that drops every registered client
RemoveFailed_all(registry, failedClients) == {}

\* the registry after the removal pass of lines 63-67
RemoveFailed(registry, failedClients) == registry \ failedClients

\* lines 63-67: the removal pass under the write lock
BroadcastRemove(c) ==
    /\ pc[c] = "removing"
    /\ writer = c
    /\ rlock = {}
    /\ clients' = RemoveFailed(clients, clientsToRemove[c])
    /\ clientsToRemove' = [clientsToRemove EXCEPT ![c] = {}]
    /\ writer' = ""
    /\ pc' = [pc EXCEPT ![c] = "reading"]
    /\ UNCHANGED <<rlock, todo, cur, sent, store, broken, closed, nmsgs>>
    /\ UNCHANGED <<loopErr, qVars, httpVars, aggVars, stepVars>>

(***************************************************************************)
(* Leaving the loop and the deferred cleanup, lines 90-95 and 104-108.     *)
(***************************************************************************)
\* conn.ReadMessage returns an error (a clean close included): break
ReadError(c) ==
    /\ pc[c] = "reading"
    /\ pc' = [pc EXCEPT ![c] = "closing"]
    /\ UNCHANGED <<clients, rlock, todo, clientsToRemove, cur, sent, store,
                   broken, closed, nmsgs>>
    /\ UNCHANGED <<loopErr, writer, qVars, httpVars, aggVars, stepVars>>

\* lines 91-93: delete(h.clients, conn) under the write lock
Unregister(c) ==
    /\ pc[c] = "closing"
    /\ writer = c
    /\ rlock = {}
    /\ clients' = clients \ {c}
    /\ writer' = ""
    /\ pc' = [pc EXCEPT ![c] = "unregistered"]
    /\ UNCHANGED <<rlock, todo, clientsToRemove, cur, sent, store, broken,
                   closed, nmsgs>>
    /\ UNCHANGED <<loopErr, qVars, httpVars, aggVars, stepVars>>

\* line 94: conn.Close()
Close(c) ==
    /\ pc[c] = "unregistered"
    /\ closed' = [closed EXCEPT ![c] = TRUE]
    /\ pc' = [pc EXCEPT ![c] = "closed"]
    /\ UNCHANGED <<clients, rlock, todo, clientsToRemove, cur, sent, store,
                   broken, nmsgs>>
    /\ UNCHANGED <<loopErr, writer, qVars, httpVars, aggVars, stepVars>>

Next ==
    \/ \E c \in Conns : LockCall(c)
    \/ \E c \in Conns : Upgrade(c)
    \/ \E c \in Conns, m \in WireMessages, dbOk \in BOOLEAN : Ingest(c, m, dbOk)
    \/ \E c \in Conns, outcome \in WriteOutcomes : Respond(c, outcome)
    \/ \E c \in Conns : Continue(c)
    \/ \E c \in Conns : BroadcastRLock(c)
    \/ \E c \in Conns, client \in Conns, outcome \in WriteOutcomes :
          BroadcastWrite(c, client, outcome)
    \/ \E c \in Conns : BroadcastRUnlock(c)
    \/ \E c \in Conns : BroadcastRemove(c)
    \/ \E c \in Conns : ReadError(c)
    \/ \E c \in Conns : Unregister(c)
    \/ \E c \in Conns : Close(c)

Spec == Init /\ [][Next]_vars

(***************************************************************************)
(* The Go scheduler runs every runnable goroutine, writes end, and a       *)
(* goroutine blocked in Lock or RLock proceeds once the lock is free:      *)
(* every step of a handler other than the arrival of a connection, of a    *)
(* message or of a read error is weakly fair (a connection has arrived    *)
(* once its handler has called Lock at line 85).  A goroutine that waits   *)
(* for a lock which is never released has no enabled step.                 *)
(***************************************************************************)
HandlerStep(c) ==
    \/ pc[c] # "new" /\ LockCall(c)
    \/ Upgrade(c)
    \/ \E outcome \in WriteOutcomes : Respond(c, outcome)
    \/ Continue(c)
    \/ BroadcastRLock(c)
    \/ \E client \in Conns, outcome \in WriteOutcomes : BroadcastWrite(c, client, outcome)
    \/ BroadcastRUnlock(c)
    \/ BroadcastRemove(c)
    \/ Unregister(c)
    \/ Close(c)

FairSpec == Spec /\ \A c \in Conns : WF_vars(HandlerStep(c))

(***************************************************************************)
(* The query classifier, AIService.determineQueryType.  A text is the      *)
(* sequence of its characters.                                             *)
(***************************************************************************)
UpperCase == <<"A", "B", "C", "D", "E", "F", "G", "H", "I", "J", "K", "L", "M",
               "N", "O", "P", "Q", "R", "S", "T", "U", "V", "W", "X", "Y", "Z">>
LowerCase == <<"a", "b", "c", "d", "e", "f", "g", "h", "i", "j", "k", "l", "m",
               "n", "o", "p", "q", "r", "s", "t", "u", "v", "w", "x", "y", "z">>

\* strings.ToLower, one character
ToLowerChar(ch) ==
    IF \E i \in DOMAIN UpperCase : UpperCase[i] = ch
    THEN LowerCase[CHOOSE i \in DOMAIN UpperCase : UpperCase[i] = ch]
    ELSE ch

\* strings.ToLower
ToLower(text) == [i \in DOMAIN text |-> ToLowerChar(text[i])]

\* strings.Contains(text, keyword)
Contains(text, keyword) ==
    \E i \in 1..(Len(text) - Len(keyword) + 1) :
        /\ text[i] = keyword[1]
        /\ SubSeq(text, i, i + Len(keyword) - 1) = keyword

\* the keywords that suggest a data query (text-to-SQL)
dataKeywords ==
    << <<"s", "h", "o", "w", " ", "m", "e">>,
       <<"w", "h", "a", "t", " ", "i", "s">>,
       <<"h", "o", "w", " ", "m", "a", "n", "y">>,
       <<"a", "v", "e", "r", "a", "g", "e">>,
       <<"c", "o", "u", "n", "t">>,
       <<"t", "e", "m", "p", "e", "r", "a", "t", "u", "r", "e">>,
       <<"h", "u", "m", "i", "d", "i", "t", "y">>,
       <<"m", "o", "t", "i", "o", "n">>,
       <<"c", "a", "m", "e", "r", "a">>,
       <<"c", "o", "n", "t", "r", "o", "l", "l", "e", "r">>,
       <<"d", "e", "v", "i", "c", "e">>,
       <<"l", "o", "c", "a", "t", "i", "o", "n">>,
       <<"l", "a", "s", "t", " ", "h", "o", "u", "r">>,
       <<"l", "a", "s", "t", " ", "2", "4", " ", "h", "o", "u", "r", "s">>,
       <<"y", "e", "s", "t", "e", "r", "d", "a", "y">>,
       <<"t", "o", "d", "a", "y">>,
       <<"t", "h", "i", "s", " ", "w", "e", "e", "k">>,
       <<"a", "b", "o", "v", "e">>,
       <<"b", "e", "l", "o", "w">>,
       <<"b", "e", "t", "w", "e", "e", "n">>,
       <<"g", "r", "e", "a", "t", "e", "r", " ", "t", "h", "a", "n">>,
       <<"l", "e", "s", "s", " ", "t", "h", "a", "n">>,
       <<"r", "a", "w", "_", "v", "a", "l", "u", "e">>,
       <<"u", "n", "i", "t">>,
       <<"t", "i", "m", "e">>,
       <<"h", "o", "u", "r">>,
       <<"d", "a", "y">>,
       <<"w", "e", "e", "k">>,
       <<"m", "o", "n", "t", "h">> >>

\* the keywords that suggest pattern discovery (semantic search)
patternKeywords ==
    << <<"w", "h", "y">>,
       <<"h", "o", "w">>,
       <<"p", "a", "t", "t", "e", "r", "n", "s">>,
       <<"s", "i", "m", "i", "l", "a", "r">>,
       <<"u", "n", "u", "s", "u", "a", "l">>,
       <<"a", "n", "o", "m", "a", "l", "y">>,
       <<"p", "r", "o", "b", "l", "e", "m">>,
       <<"i", "s", "s", "u", "e">>,
       <<"f", "a", "i", "l", "u", "r", "e">>,
       <<"e", "r", "r", "o", "r">>,
       <<"w", "a", "r", "n", "i", "n", "g">>,
       <<"c", "r", "i", "t", "i", "c", "a", "l">>,
       <<"s", "e", "c", "u", "r", "i", "t", "y">>,
       <<"b", "e", "h", "a", "v", "i", "o", "r">>,
       <<"t", "r", "e", "n", "d">>,
       <<"i", "n", "s", "i", "g", "h", "t">>,
       <<"a", "n", "a", "l", "y", "s", "i", "s">>,
       <<"e", "x", "p", "l", "a", "i", "n">>,
       <<"u", "n", "d", "e", "r", "s", "t", "a", "n", "d">>,
       <<"f", "i", "n", "d", " ", "l", "o", "g", "s">>,
       <<"s", "e", "a", "r", "c", "h", " ", "f", "o", "r">>,
       <<"d", "i", "s", "c", "o", "v", "e", "r">>,
       <<"i", "n", "v", "e", "s", "t", "i", "g", "a", "t", "e">> >>

\* the for loop over a keyword list from index i on, matches counted so far
RECURSIVE MatchLoop(_, _, _, _)
MatchLoop(queryLower, keywords, i, matches) ==
    IF i > Len(keywords) THEN matches
    ELSE MatchLoop(queryLower, keywords, i + 1,
                   IF Contains(queryLower, keywords[i]) THEN matches + 1 ELSE matches)

\* as CountMatches, a loop that stops at its first match
CountMatches_firstOnly(queryLower, keywords) ==
    IF \E i \in DOMAIN keywords : Contains(queryLower, keywords[i]) THEN 1 ELSE 0

\* dataMatches / patternMatches: the count the loop ends with
CountMatches(queryLower, keywords) == MatchLoop(queryLower, keywords, 1, 0)

\* as determineQueryType, with >= in the decision
determineQueryType_ge(text) ==
    IF CountMatches(ToLower(text), dataKeywords)
          >= CountMatches(ToLower(text), patternKeywords)
    THEN "data_query" ELSE "pattern_search"

\* determineQueryType(query string) string
determineQueryType(text) ==
    LET queryLower == ToLower(text)
        dataMatches == CountMatches(queryLower, dataKeywords)
        patternMatches == CountMatches(queryLower, patternKeywords)
    IN IF dataMatches > patternMatches THEN "data_query" ELSE "pattern_search"

\* number of words a question is typed from
MaxWords == 2

\* the words questions are typed from
Words ==
    << <<"S", "h", "o", "w", " ", "m", "e">>,
       <<"a", "v", "e", "r", "a", "g", "e">>,
       <<"l", "a", "s", "t", " ", "h", "o", "u", "r">>,
       <<"w", "h", "y">>,
       <<"E", "R", "R", "O", "R">>,
       <<"H", "u", "m", "i", "d", "i", "t", "y">> >>

\* the text with one more word, after a space
WithWord(text, w) == IF text = <<>> THEN w ELSE text \o <<" ">> \o w

\* the text with one more occurrence of keyword k: k is put after the first
\* `at` characters of the text (0: in front, Len(text): at the end, anywhere
\* in between: inside), with `before` and `after` (a space or nothing)
\* between it and the text
AddOccurrence(text, k, at, before, after) ==
    SubSeq(text, 1, at) \o before \o k \o after \o SubSeq(text, at + 1, Len(text))

\* a word is typed
Type(w) ==
    /\ resp = NoResponse
    /\ nwords < MaxWords
    /\ added.k = <<>>
    /\ query' = WithWord(query, w)
    /\ nwords' = nwords + 1
    /\ queryType' = ""
    /\ prevType' = ""
    /\ UNCHANGED added
    /\ UNCHANGED <<hubVars, httpVars, aggVars, stepVars>>

\* QueryLogs calls determineQueryType(query)
Classify ==
    /\ queryType = ""
    /\ queryType' = determineQueryType(query)
    /\ UNCHANGED <<query, nwords, prevType, added>>
    /\ UNCHANGED <<hubVars, httpVars, aggVars, stepVars>>

\* a classified question is asked again with one more occurrence of a
\* structured keyword, at any place of the text (no word is longer than nine
\* characters, so 10 * MaxWords covers every place)
AddKeyword(k, at, before, after) ==
    /\ queryType # ""
    /\ added.k = <<>>
    /\ query # <<>>
    /\ at <= Len(query)
    /\ query' = AddOccurrence(query, k, at, before, after)
    /\ added' = [k |-> k, at |-> at, before |-> before, after |-> after]
    /\ prevType' = queryType
    /\ queryType' = determineQueryType(query')
    /\ UNCHANGED nwords
    /\ UNCHANGED <<hubVars, httpVars, aggVars, stepVars>>

QNext ==
    \/ \E i \in DOMAIN Words : Type(Words[i])
    \/ Classify
    \/ \E i \in DOMAIN dataKeywords, at \in 0..(10 * MaxWords),
          before \in {<<>>, <<" ">>}, after \in {<<>>, <<" ">>} :
          AddKeyword(dataKeywords[i], at, before, after)

ClassifierSpec == Init /\ [][QNext]_vars

(***************************************************************************)
(* The AI service and its HTTP endpoints.  The collaborators (OpenAI's     *)
(* embedding and chat APIs, the database) answer as they please: their     *)
(* outcomes are inputs of the handlers.                                    *)
(***************************************************************************)
\* rows a query can find
MaxRows == 1

\* the wrapped error of a collaborator
ApiError == "status code: 500"
DbError == "pq: connection refused"

\* the result payload of no envelope
NoResult == [kind |-> "none"]

\* types.QueryResponse; error is left out of the JSON when it is empty
QueryResponse(success, result, queryText, error) ==
    [success |-> success, result |-> result, query |-> queryText,
     time |-> NowTime, error |-> error]

\* the nil *types.QueryResponse
NoEnvelope == [success |-> FALSE, result |-> NoResult,
               query |-> [prefix |-> "", text |-> <<>>],
               time |-> ZeroTime, error |-> ""]

\* what a service method returns: (response, err), err "" being nil; calls
\* are the collaborator calls it made
Returned(response, err, calls) == [response |-> response, err |-> err, calls |-> calls]

\* what client.CreateEmbeddings can do, and the missing API key
EmbeddingOutcomes == {"ok", "no_api_key", "api_error", "no_data"}

\* what db.Query and the rows iteration can do
DbOutcomes == {"ok", "query_error", "rows_error"}

\* as generateEmbedding, without the check of an empty resp.Data
generateEmbedding_noDataCheck(emb) ==
    IF emb = "no_api_key" THEN "OPENAI_API_KEY environment variable not set"
    ELSE IF emb = "api_error" THEN "failed to create embedding: " \o ApiError
    ELSE ""

\* generateEmbedding(text): the error it returns
generateEmbedding(emb) ==
    IF emb = "no_api_key" THEN "OPENAI_API_KEY environment variable not set"
    ELSE IF emb = "api_error" THEN "failed to create embedding: " \o ApiError
    ELSE IF emb = "no_data" THEN "no embedding returned from API"
    ELSE ""

\* the calls generateEmbedding makes: none without an API key
EmbeddingCalls(emb) == IF emb = "no_api_key" THEN {} ELSE {"CreateEmbeddings"}

Min(a, b) == IF a < b THEN a ELSE b

\* the i-th nearest row of sensor_readings_embeddings as a types.SearchResult
SearchResult(i) ==
    [device_id |-> "d1", log_type |-> "ERROR", chunk |-> "sensor malfunction",
     chunk_seq |-> 0, embedding_uuid |-> "", distance |-> i]

\* as SearchResults, failing when the query finds no row
SearchResults_errorOnEmpty(limit, db, n, k) ==
    IF db = "query_error" THEN [err |-> "vector search failed: " \o DbError, results |-> <<>>]
    ELSE IF db = "rows_error" THEN [err |-> "error iterating results: " \o DbError, results |-> <<>>]
    ELSE IF Min(n, limit) = 0 THEN [err |-> "no results found", results |-> <<>>]
    ELSE [err |-> "", results |-> [i \in 1..Min(k, Min(n, limit)) |-> SearchResult(i)]]

\* steps 4 and 5 of SearchSimilarLogs: the nearest-neighbour query, LIMIT
\* limit, over n rows with an embedding, of which the first k scan (a row
\* whose Scan fails is skipped)
SearchResults(limit, db, n, k) ==
    IF db = "query_error" THEN [err |-> "vector search failed: " \o DbError, results |-> <<>>]
    ELSE IF db = "rows_error" THEN [err |-> "error iterating results: " \o DbError, results |-> <<>>]
    ELSE [err |-> "", results |-> [i \in 1..Min(k, Min(n, limit)) |-> SearchResult(i)]]

\* SearchSimilarLogs(searchText, limit)
SearchSimilarLogs(searchText, limit, emb, db, n, k) ==
    IF generateEmbedding(emb) # ""
    THEN Returned(NoEnvelope, "failed to generate embedding: " \o generateEmbedding(emb),
                  EmbeddingCalls(emb))
    ELSE LET found == SearchResults(limit, db, n, k)
             calls == EmbeddingCalls(emb) \cup {"db.Query(searchQuery)"}
         IN IF found.err # "" THEN Returned(NoEnvelope, found.err, calls)
            ELSE Returned(
                   QueryResponse(TRUE,
                       [kind |-> "search", results |-> found.results,
                        count |-> Len(found.results), query |-> searchText],
                       [prefix |-> "Find logs similar to: ", text |-> searchText], ""),
                   "", calls)

\* generateAnswerFromResults: the first three results at most
generateAnswerFromResults(results) ==
    IF Len(results) = 0
    THEN [text |-> "I couldn't find any relevant logs to answer your question.",
          items |-> <<>>]
    ELSE [text |-> "Based on relevant logs, here's what I found:",
          items |-> SubSeq(results, 1, Min(3, Len(results)))]

\* performSemanticSearch(query)
performSemanticSearch(text, emb, db, n, k) ==
    LET searchResults == SearchSimilarLogs(text, 10, emb, db, n, k)
    IN IF searchResults.err # ""
       THEN Returned(NoEnvelope, "failed to perform semantic search: " \o searchResults.err,
                     searchResults.calls)
       ELSE Returned(
              QueryResponse(TRUE,
                  [kind |-> "pattern",
                   answer |-> generateAnswerFromResults(searchResults.response.result.results),
                   relevant_logs |-> searchResults.response.result.results,
                   log_count |-> searchResults.response.result.count,
                   query_type |-> "pattern_search"],
                  [prefix |-> "", text |-> text], ""),
              "", searchResults.calls)

(***************************************************************************)
(* TextToSQLService: the SQL is whatever the chat model answers.  A        *)
(* generated query is kept as the relation it selects from and the columns *)
(* it projects (query_type and explanation, computed from the SQL text,    *)
(* are left out of the payload).                                           *)
(***************************************************************************)
Sources == {"sensor_readings"} \cup Views

\* the time-bucket column of a continuous aggregate
BucketColumn(v) ==
    IF v = "five_min_sensor_averages" THEN "five_min_bucket"
    ELSE IF v = "hourly_sensor_averages" THEN "hour"
    ELSE "day"

\* a value column of a continuous aggregate
ValueColumn(v) == IF v = "daily_device_activity" THEN "error_count" ELSE "avg_value"

NoSQL == [from |-> "", cols |-> {}]

\* queries the chat model can answer with: on every aggregate one with and one
\* without the bucket column, and one on the raw readings
GeneratedSQL ==
    {[from |-> v, cols |-> {BucketColumn(v), ValueColumn(v)}] : v \in Views}
    \cup {[from |-> v, cols |-> {ValueColumn(v)}] : v \in Views}
    \cup {[from |-> "sensor_readings", cols |-> {"time", "device_id", "raw_value", "message"}]}

\* what s.openai.CreateChatCompletion can do
ChatOutcomes ==
    {[kind |-> "api_error", sql |-> NoSQL], [kind |-> "no_choices", sql |-> NoSQL]}
    \cup {[kind |-> "sql", sql |-> q] : q \in GeneratedSQL}

\* generateSQL(query): the error and the SQL of the first choice
generateSQL(chat) ==
    IF chat.kind = "api_error" THEN [err |-> "OpenAI API error: " \o ApiError, sqlQuery |-> NoSQL]
    ELSE IF chat.kind = "no_choices" THEN [err |-> "no response from OpenAI", sqlQuery |-> NoSQL]
    ELSE [err |-> "", sqlQuery |-> chat.sql]

\* executeSQL(sqlQuery): the query runs as generated; the rows, n of them of
\* which k scan, are maps over the columns other than embedding and message
executeSQL(sqlQuery, db, n, k) ==
    IF db = "query_error"
    THEN [err |-> "SQL execution error: " \o DbError, results |-> <<>>, rowCount |-> 0]
    ELSE IF db = "rows_error"
    THEN [err |-> "error iterating results: " \o DbError, results |-> <<>>, rowCount |-> 0]
    ELSE LET filteredColumns == sqlQuery.cols \ {"embedding", "message"}
             results == [i \in 1..Min(k, n) |-> [col \in filteredColumns |-> i]]
         IN [err |-> "", results |-> results, rowCount |-> Len(results)]

\* ConvertToSQL(query)
ConvertToSQL(text, chat, db, n, k) ==
    LET generated == generateSQL(chat)
        executed == executeSQL(generated.sqlQuery, db, n, k)
    IN IF generated.err # ""
       THEN Returned(NoEnvelope, "failed to generate SQL: " \o generated.err,
                     {"CreateChatCompletion"})
       ELSE IF executed.err # ""
       THEN Returned(NoEnvelope, "failed to execute SQL: " \o executed.err,
                     {"CreateChatCompletion", "db.Query(sqlQuery)"})
       ELSE Returned(
              QueryResponse(TRUE,
                  [kind |-> "sql", sql |-> generated.sqlQuery,
                   result |-> executed.results, row_count |-> executed.rowCount],
                  [prefix |-> "", text |-> text], ""),
              "", {"CreateChatCompletion", "db.Query(sqlQuery)"})

\* as QueryLogs, with a failed data query answered by the semantic search
QueryLogs_fallback(text, chat, emb, db, n, k) ==
    IF determineQueryType(text) = "data_query"
    THEN IF ConvertToSQL(text, chat, db, n, k).err = ""
         THEN ConvertToSQL(text, chat, db, n, k)
         ELSE Returned(performSemanticSearch(text, emb, db, n, k).response,
                       performSemanticSearch(text, emb, db, n, k).err,
                       ConvertToSQL(text, chat, db, n, k).calls
                          \cup performSemanticSearch(text, emb, db, n, k).calls)
    ELSE performSemanticSearch(text, emb, db, n, k)

\* QueryLogs(query): routing by determineQueryType
QueryLogs(text, chat, emb, db, n, k) ==
    IF determineQueryType(text) = "data_query"
    THEN ConvertToSQL(text, chat, db, n, k)
    ELSE performSemanticSearch(text, emb, db, n, k)

\* getRecentLogs(timeRange): rows.Scan is given three destinations for the four
\* selected columns, so the first row makes it fail; rows.Err is not checked
getRecentLogs(db, n) ==
    IF db = "query_error" THEN [err |-> DbError, logs |-> <<>>]
    ELSE IF n > 0
    THEN [err |-> "sql: expected 4 destination arguments in Scan, not 3", logs |-> <<>>]
    ELSE [err |-> "", logs |-> <<>>]

\* the number of logs of a type
CountType(logs, logType) == Cardinality({i \in DOMAIN logs : logs[i].log_type = logType})

\* generateSummary(logs, timeRange)
generateSummary(logs, timeRange) ==
    IF Len(logs) = 0 THEN [text |-> "No logs found in the last", range |-> timeRange]
    ELSE [text |-> "logs were generated", range |-> timeRange, count |-> Len(logs),
          devices |-> Cardinality({logs[i].device_id : i \in DOMAIN logs}),
          info |-> CountType(logs, "INFO"), warn |-> CountType(logs, "WARN"),
          error |-> CountType(logs, "ERROR")]

\* extractKeyInsights(logs)
extractKeyInsights(logs) ==
    (IF CountType(logs, "ERROR") > 0 THEN <<"Found error logs that may need attention">>
     ELSE <<>>)
    \o (IF Len(logs) > 50
        THEN <<"High log volume detected - consider reviewing system health">>
        ELSE <<>>)

\* SummarizeLogs(timeRange)
SummarizeLogs(timeRange, db, n) ==
    LET recent == getRecentLogs(db, n)
    IN IF recent.err # ""
       THEN Returned(NoEnvelope, "failed to get recent logs: " \o recent.err,
                     {"db.Query(device_logs)"})
       ELSE Returned(
              QueryResponse(TRUE,
                  [kind |-> "summary", summary |-> generateSummary(recent.logs, timeRange),
                   time_range |-> timeRange, log_count |-> Len(recent.logs),
                   key_insights |-> extractKeyInsights(recent.logs)],
                  [prefix |-> "Summarize logs from last " \o timeRange, text |-> <<>>], ""),
              "", {"db.Query(device_logs)"})

\* detectAnomalies(logs): one anomaly per ERROR log
detectAnomalies(logs) ==
    LET errors == {i \in DOMAIN logs : logs[i].log_type = "ERROR"}
    IN [i \in 1..Cardinality(errors) |-> [type |-> "Error", severity |-> "High"]]

\* DetectAnomalies()
DetectAnomalies(db, n) ==
    LET recent == getRecentLogs(db, n)
    IN IF recent.err # ""
       THEN Returned(NoEnvelope, "failed to get recent logs: " \o recent.err,
                     {"db.Query(device_logs)"})
       ELSE Returned(
              QueryResponse(TRUE,
                  [kind |-> "anomalies", anomalies |-> detectAnomalies(recent.logs),
                   total_found |-> Len(detectAnomalies(recent.logs)), time_range |-> "24h"],
                  [prefix |-> "Detect anomalies in recent logs", text |-> <<>>], ""),
              "", {"db.Query(device_logs)"})

(***************************************************************************)
(* The HTTP handlers of Server.  req tells whether the request has the     *)
(* handler's method and a body that decodes; the question or search text   *)
(* of the request is the text typed (query).  A run follows one request    *)
(* to its response.                                                        *)
(***************************************************************************)
Requests == {"ok", "bad_method", "bad_json"}

\* http.Error(w, text, code): a plain-text body
HttpError(op, code, text, calls) ==
    [op |-> op, status |-> code, contentType |-> "text/plain; charset=utf-8",
     text |-> text, json |-> NoEnvelope, calls |-> calls]

\* json.NewEncoder(w).Encode(response), status 200
HttpJSON(op, response, calls) ==
    [op |-> op, status |-> 200, contentType |-> "application/json",
     text |-> "", json |-> response, calls |-> calls]

\* the end of every AI handler: loopErr != nil is answered with http.Error and
\* status 500, anything else with the encoded response
Reply(op, returned, failText) ==
    IF returned.err # "" THEN HttpError(op, 500, failText, returned.calls)
    ELSE HttpJSON(op, returned.response, returned.calls)

\* the default of aiSearchHandler for a request without limit
DefaultSearchLimit == 10

\* the limits a search request carries (0: none given)
SearchLimits == {0, 1}

aiQueryHandler(req, chat, emb, db, n, k) ==
    /\ resp = NoResponse
    /\ k <= n
    /\ resp' = IF req = "bad_method" THEN HttpError("query", 405, "Method not allowed", {})
               ELSE IF req = "bad_json" THEN HttpError("query", 400, "Invalid JSON", {})
               ELSE IF query = <<>> THEN HttpError("query", 400, "Query is required", {})
               ELSE Reply("query", QueryLogs(query, chat, emb, db, n, k), "AI query failed")
    /\ served' = [req |-> req, chat |-> chat.kind, emb |-> emb, db |-> db, n |-> n, k |-> k]
    /\ UNCHANGED <<hubVars, qVars, aggVars, stepVars>>

aiSearchHandler(req, limit, emb, db, n, k) ==
    /\ resp = NoResponse
    /\ k <= n
    /\ resp' = IF req = "bad_method" THEN HttpError("search", 405, "Method not allowed", {})
               ELSE IF req = "bad_json" THEN HttpError("search", 400, "Invalid JSON", {})
               ELSE IF query = <<>>
               THEN HttpError("search", 400, "Search text is required", {})
               ELSE Reply("search",
                          SearchSimilarLogs(query,
                              IF limit = 0 THEN DefaultSearchLimit ELSE limit,
                              emb, db, n, k),
                          "AI search failed")
    /\ served' = [req |-> req, limit |-> limit, emb |-> emb, db |-> db, n |-> n, k |-> k]
    /\ UNCHANGED <<hubVars, qVars, aggVars, stepVars>>

\* the range parameter of a summary request ("": none given)
TimeRanges == {"", "24h"}

aiSummarizeHandler(req, range, db, n) ==
    /\ resp = NoResponse
    /\ req # "bad_json"
    /\ resp' = IF req = "bad_method" THEN HttpError("summarize", 405, "Method not allowed", {})
               ELSE Reply("summarize",
                          SummarizeLogs(IF range = "" THEN "1h" ELSE range, db, n),
                          "AI summary failed")
    /\ served' = [req |-> req, range |-> range, db |-> db, n |-> n]
    /\ UNCHANGED <<hubVars, qVars, aggVars, stepVars>>

aiAnomaliesHandler(req, db, n) ==
    /\ resp = NoResponse
    /\ req # "bad_json"
    /\ resp' = IF req = "bad_method" THEN HttpError("anomalies", 405, "Method not allowed", {})
               ELSE Reply("anomalies", DetectAnomalies(db, n), "AI anomaly detection failed")
    /\ served' = [req |-> req, db |-> db, n |-> n]
    /\ UNCHANGED <<hubVars, qVars, aggVars, stepVars>>

AiNext ==
    \/ \E i \in DOMAIN Words : Type(Words[i])
    \/ \E req \in Requests, chat \in ChatOutcomes, emb \in EmbeddingOutcomes,
          db \in DbOutcomes, n \in 0..MaxRows, k \in 0..MaxRows :
          aiQueryHandler(req, chat, emb, db, n, k)
    \/ \E req \in Requests, limit \in SearchLimits, emb \in EmbeddingOutcomes,
          db \in DbOutcomes, n \in 0..MaxRows, k \in 0..MaxRows :
          aiSearchHandler(req, limit, emb, db, n, k)
    \/ \E req \in Requests, range \in TimeRanges, db \in DbOutcomes, n \in 0..MaxRows :
          aiSummarizeHandler(req, range, db, n)
    \/ \E req \in Requests, db \in DbOutcomes, n \in 0..MaxRows :
          aiAnomaliesHandler(req, db, n)

AiSpec == Init /\ [][AiNext]_vars

(***************************************************************************)
(* The read endpoints, /api/logs and /api/logs/device/{id}, and the        *)
(* database functions they call.  The table sensor_readings is store, the  *)
(* rows StoreSensorReading inserted.                                       *)
(***************************************************************************)
\* db.LogEntry, the row type of the table device_logs
DbLogEntry(row) ==
    [time |-> row.time, device_id |-> row.device_id, log_type |-> row.log_type,
     message |-> row.message]

\* the rows of the table device_logs: migration 001 creates it and no
\* statement of the repository inserts into it
device_logs == {}

\* ORDER BY time DESC LIMIT limit: every order the database can return the
\* rows in (rows of the same time come in any order)
TopRows(table, limit) ==
    LET n == Cardinality(table)
        ordered == {s \in [1..n -> table] :
                       /\ \A i, j \in 1..n : i # j => s[i] # s[j]
                       /\ \A i \in 1..n, j \in 1..n : i < j => s[i].time >= s[j].time}
    IN {SubSeq(s, 1, Min(limit, n)) : s \in ordered}

\* what `for rows.Next() { rows.Scan(...); append }` followed by `return
\* logs, nil` returns for the rows db.Query selected: all of them, or, when
\* the iteration fails (rows.Next() returns false and rows.Err() is not
\* checked), the rows read before the failure, with a nil error all the same
Iterated(selected, db) ==
    LET Scan(row) == [f \in DOMAIN row \ {"copy"} |-> row[f]]
        Scanned(rows, k) == [i \in 1..k |-> Scan(rows[i])]
    IN IF db = "rows_error"
       THEN UNION {{[err |-> "", logs |-> Scanned(rows, k)] : k \in 0..Len(rows)} :
                      rows \in selected}
       ELSE {[err |-> "", logs |-> Scanned(rows, Len(rows))] : rows \in selected}

\* db.GetRecentSensorReadings(db, limit): the results it can return
GetRecentSensorReadings(sensor_readings, limit, db) ==
    IF db = "query_error" THEN {[err |-> DbError, logs |-> <<>>]}
    ELSE Iterated(TopRows(sensor_readings, limit), db)

\* db.GetLogsByDevice(db, deviceID, limit): the results it can return
GetLogsByDevice(deviceID, limit, db) ==
    IF db = "query_error" THEN {[err |-> DbError, logs |-> <<>>]}
    ELSE Iterated(TopRows({row \in device_logs : row.device_id = deviceID}, limit), db)

\* the JSON body of a read endpoint (device_id is "" for /api/logs, which
\* has no such field)
LogsJSON(op, deviceID, logs) ==
    [op |-> op, status |-> 200, contentType |-> "application/json", text |-> "",
     device_id |-> deviceID, logs |-> logs, count |-> Len(logs)]

\* the default limits of logsHandler and deviceLogsHandler
DefaultLogsLimit == 50
DefaultDeviceLogsLimit == 20
\* the limit parameter of a read request (0: none given, or not positive)
ReadLimits == {0, 1}
\* the methods of a read request
ReadRequests == {"ok", "bad_method"}

logsHandler(req, limit, db) ==
    /\ resp = NoResponse
    /\ \E logs \in GetRecentSensorReadings(store,
                       IF limit = 0 THEN DefaultLogsLimit ELSE limit, db) :
          resp' = IF req = "bad_method" THEN HttpError("logs", 405, "Method not allowed", {})
                  ELSE IF logs.err # ""
                  THEN HttpError("logs", 500, "Internal server error", {})
                  ELSE LogsJSON("logs", "", logs.logs)
    /\ served' = [req |-> req, limit |-> limit, db |-> db]
    /\ UNCHANGED <<hubVars, qVars, aggVars, stepVars>>

deviceLogsHandler(req, deviceID, limit, db) ==
    /\ resp = NoResponse
    /\ \E logs \in GetLogsByDevice(deviceID,
                       IF limit = 0 THEN DefaultDeviceLogsLimit ELSE limit, db) :
          resp' = IF req = "bad_method"
                  THEN HttpError("device_logs", 405, "Method not allowed", {})
                  ELSE IF deviceID = ""
                  THEN HttpError("device_logs", 400, "Device ID required", {})
                  ELSE IF logs.err # ""
                  THEN HttpError("device_logs", 500, "Internal server error", {})
                  ELSE LogsJSON("device_logs", deviceID, logs.logs)
    /\ served' = [req |-> req, deviceID |-> deviceID, limit |-> limit, db |-> db]
    /\ UNCHANGED <<hubVars, qVars, aggVars, stepVars>>

\* the device whose connection sends the readings that are read back
Device == "A"

ReadNext ==
    \/ LockCall(Device)
    \/ Upgrade(Device)
    \/ \E m \in AllWireMessages, dbOk \in BOOLEAN : Ingest(Device, m, dbOk)
    \/ \E outcome \in WriteOutcomes : Respond(Device, outcome)
    \/ Continue(Device)
    \/ BroadcastRLock(Device)
    \/ \E outcome \in WriteOutcomes : BroadcastWrite(Device, Device, outcome)
    \/ BroadcastRUnlock(Device)
    \/ BroadcastRemove(Device)
    \/ ReadError(Device)
    \/ Unregister(Device)
    \/ Close(Device)
    \/ \E req \in ReadRequests, limit \in ReadLimits, db \in DbOutcomes :
          logsHandler(req, limit, db)
    \/ \E req \in ReadRequests, deviceID \in DeviceIDs, limit \in ReadLimits,
          db \in DbOutcomes : deviceLogsHandler(req, deviceID, limit, db)

ReadSpec == Init /\ [][ReadNext]_vars

(***************************************************************************)
(* The continuous aggregates of migration 009 and their refresh policies.  *)
(* Time is counted in minutes from the migration (readings may carry       *)
(* earlier timestamps); a policy added at time 0 is due at once and then   *)
(* every schedule_interval.  A job materializes the buckets that lie in    *)
(* its refresh window [now - start_offset, now - end_offset) by running    *)
(* the view's query, which reads the relation of its FROM clause (for a    *)
(* view over a view, the rows materialized there).                         *)
(***************************************************************************)
\* the minutes the database clock runs for
MaxMinutes == 120

\* as ViewSource, with the hourly view reading the raw readings
ViewSource_hourlyFromRaw(v) ==
    IF v = "daily_sensor_averages" THEN "hourly_sensor_averages"
    ELSE "sensor_readings"

\* the relation of the FROM clause of a view's query
ViewSource(v) ==
    IF v = "hourly_sensor_averages" THEN "five_min_sensor_averages"
    ELSE IF v = "daily_sensor_averages" THEN "hourly_sensor_averages"
    ELSE "sensor_readings"

\* schedule_interval of add_continuous_aggregate_policy, in minutes
schedule_interval(v) ==
    IF v = "five_min_sensor_averages" THEN 1
    ELSE IF v = "hourly_sensor_averages" THEN 5
    ELSE 60

\* start_offset of add_continuous_aggregate_policy, in minutes
start_offset(v) ==
    IF v = "five_min_sensor_averages" THEN 60
    ELSE IF v = "hourly_sensor_averages" THEN 180
    ELSE 4320

\* end_offset of add_continuous_aggregate_policy, in minutes
end_offset(v) ==
    IF v = "five_min_sensor_averages" THEN 1
    ELSE IF v = "hourly_sensor_averages" THEN 60
    ELSE 1440

(***************************************************************************)
(* The queries of the views.  Times are minutes; avg is kept as the exact  *)
(* fraction sum / count.                                                   *)
(***************************************************************************)
\* time_bucket(width, time), for the widths 5 minutes, 1 hour and 1 day
time_bucket(width, time) == (time \div width) * width

\* the bucket width of a view, in minutes
BucketWidth(v) ==
    IF v = "five_min_sensor_averages" THEN 5
    ELSE IF v = "hourly_sensor_averages" THEN 60
    ELSE 1440

\* fractions: n / d with d > 0
Frac(n, d) == [num |-> n, den |-> d]
FracEq(a, b) == a.num * b.den = b.num * a.den
FracAdd(a, b) == Frac(a.num * b.den + b.num * a.den, a.den * b.den)

RECURSIVE Sum(_)
\* sum(f[x]) over the rows x of the domain of f
Sum(f) ==
    IF DOMAIN f = {} THEN 0
    ELSE LET x == CHOOSE x \in DOMAIN f : TRUE
         IN f[x] + Sum([y \in DOMAIN f \ {x} |-> f[y]])

RECURSIVE FracSum(_)
\* the same for fractions
FracSum(f) ==
    IF DOMAIN f = {} THEN Frac(0, 1)
    ELSE LET x == CHOOSE x \in DOMAIN f : TRUE
         IN FracAdd(f[x], FracSum([y \in DOMAIN f \ {x} |-> f[y]]))

\* min and max of a non-empty set of numbers
SetMin(S) == CHOOSE m \in S : \A x \in S : m <= x
SetMax(S) == CHOOSE m \in S : \A x \in S : m >= x

\* the GROUP BY keys of a relation whose time column is col(row)
GroupKeys(rel, width, col) ==
    {[bucket |-> time_bucket(width, r[col]), device_type |-> r.device_type,
      location |-> r.location] : r \in rel}

\* the rows of a group
Group(rel, width, col, key) ==
    {r \in rel : /\ time_bucket(width, r[col]) = key.bucket
                 /\ r.device_type = key.device_type
                 /\ r.location = key.location}

\* a row of a numeric view
AverageRow(key, avg, lo, hi, cnt) ==
    [bucket |-> key.bucket, device_type |-> key.device_type, location |-> key.location,
     avg_value |-> avg, min_value |-> lo, max_value |-> hi, reading_count |-> cnt]

\* five_min_sensor_averages: avg, min, max of raw_value and count(*) of the
\* readings WHERE raw_value IS NOT NULL
FiveMinQuery(sensor_readings) ==
    LET rel == {r \in sensor_readings : r.raw_value # NilValue}
    IN {LET g == Group(rel, 5, "time", key)
        IN AverageRow(key,
               Frac(Sum([r \in g |-> r.raw_value[1]]), Cardinality(g)),
               SetMin({r.raw_value[1] : r \in g}),
               SetMax({r.raw_value[1] : r \in g}),
               Cardinality(g))
        : key \in GroupKeys(rel, 5, "time")}

\* hourly_sensor_averages and daily_sensor_averages: avg(avg_value),
\* min(min_value), max(max_value), sum(reading_count) of the rows of the view
\* below
RollupQuery(below, width) ==
    {LET g == Group(below, width, "bucket", key)
         total == FracSum([r \in g |-> r.avg_value])
     IN AverageRow(key,
            Frac(total.num, total.den * Cardinality(g)),
            SetMin({r.min_value : r \in g}),
            SetMax({r.max_value : r \in g}),
            Sum([r \in g |-> r.reading_count]))
     : key \in GroupKeys(below, width, "bucket")}

\* count(CASE WHEN log_type IN types THEN 1 END)
CountCase(g, types) == Cardinality({r \in g : r.log_type \in types})

\* daily_device_activity
ActivityQuery(sensor_readings) ==
    {LET g == Group(sensor_readings, 1440, "time", key)
     IN [bucket |-> key.bucket, device_type |-> key.device_type,
         location |-> key.location,
         total_readings |-> Cardinality(g),
         error_count |-> CountCase(g, {"ERROR", "CRITICAL"}),
         warning_count |-> CountCase(g, {"WARNING"}),
         info_count |-> CountCase(g, {"INFO"})]
     : key \in GroupKeys(sensor_readings, 1440, "time")}

\* the rows of a relation: the table sensor_readings or a materialized view
Relation(name) == IF name = "sensor_readings" THEN store ELSE mat[name]

\* the rows the query of view v selects from the rows of its source
ViewQuery(v, source) ==
    IF v = "five_min_sensor_averages" THEN FiveMinQuery(source)
    ELSE IF v = "daily_device_activity" THEN ActivityQuery(source)
    ELSE RollupQuery(source, BucketWidth(v))

\* the policies whose job is due
Due == {v \in Views : nextRun[v] <= now}

\* the rows of view v after a job at time now: the buckets that lie whole
\* in the refresh window are computed anew from the source, the other rows
\* stay as they are
Refreshed(v) ==
    LET InWindow(row) == /\ row.bucket >= now - start_offset(v)
                         /\ row.bucket + BucketWidth(v) <= now - end_offset(v)
    IN {row \in mat[v] : ~InWindow(row)}
       \cup {row \in ViewQuery(v, Relation(ViewSource(v))) : InWindow(row)}

\* the job of a policy runs: the view is refreshed from its source and the
\* job is scheduled again
RefreshPolicy(v) ==
    /\ v \in Due
    /\ lastRead' = [lastRead EXCEPT ![v] = ViewSource(v)]
    /\ mat' = [mat EXCEPT ![v] = Refreshed(v)]
    /\ runs' = [runs EXCEPT ![v] = @ + 1]
    /\ nextRun' = [nextRun EXCEPT ![v] = now + schedule_interval(v)]
    /\ UNCHANGED now
    /\ UNCHANGED <<hubVars, qVars, httpVars, stepVars>>

\* a minute passes once every due job has run
Tick ==
    /\ Due = {}
    /\ now < MaxMinutes
    /\ now' = now + 1
    /\ UNCHANGED <<nextRun, runs, lastRead, mat>>
    /\ UNCHANGED <<hubVars, qVars, httpVars, stepVars>>

RollupNext ==
    \/ \E v \in Views : RefreshPolicy(v)
    \/ Tick

RollupSpec == Init /\ [][RollupNext]_vars

(***************************************************************************)
(* The views over stored readings: a reading is stored whenever a message  *)
(* arrives, before or after any job; the clock runs and the jobs of the    *)
(* policies run when they are due, the jobs of one minute in any order.    *)
(***************************************************************************)
\* the number of readings stored
MaxReadings == 3

\* the log levels of a reading
Severities == {"INFO", "WARN", "WARNING", "ERROR", "CRITICAL", "DEBUG", "SECURITY"}

\* a row of sensor_readings
SensorReading(time, deviceID, deviceType, rawValue, logType) ==
    [time |-> time, device_id |-> deviceID, device_type |-> deviceType,
     location |-> "warehouse_a", raw_value |-> rawValue, log_type |-> logType]

\* the readings stored: temperatures of d1 in two 5-minute buckets of the
\* hour before the migration and in the hour after it, a humidity of d2, and
\* logs of d2 of every level, timestamped two days before
SensorReadings ==
    {SensorReading(t, "d1", "temperature_sensor", <<v>>, "INFO") :
        t \in {-60, -59, -55, 0}, v \in {10, 20}}
    \cup {SensorReading(-60, "d2", "humidity_sensor", <<20>>, "INFO")}
    \cup {SensorReading(-2878, "d2", "humidity_sensor", NilValue, s) : s \in Severities}

\* a reading is stored: the INSERT of StoreSensorReading, at any time
StoreReading(reading) ==
    /\ Cardinality(store) < MaxReadings
    /\ store' = StoreSensorReading(reading)
    /\ UNCHANGED <<pc, clients, rlock, todo, clientsToRemove, cur, sent, broken,
                   closed, nmsgs>>
    /\ UNCHANGED <<loopErr, writer, qVars, httpVars, aggVars, stepVars>>

AggregateNext ==
    \/ \E reading \in SensorReadings : StoreReading(reading)
    \/ \E v \in Views : RefreshPolicy(v)
    \/ Tick

AggregateSpec == Init /\ [][AggregateNext]_vars

(***************************************************************************)
(* The hub statement by statement (handler.go lines 46-141): the calls of   *)
(* h.clientsMutex, every access to h.clients, and each conn.WriteJSON from  *)
(* its call to its return, for two concurrent HandleWebSocket goroutines.   *)
(* sync.RWMutex: Lock first excludes other writers and keeps new readers    *)
(* out (wlock), then waits until the readers have left (rlock = {}); RLock  *)
(* is granted while no writer holds or waits.                               *)
(***************************************************************************)
\* the connections whose handlers run in StepSpec
Handlers == {"A", "B"}

\* the messages sent in StepSpec: an error log of device d1, and bytes that
\* do not decode
StepMessages ==
    {w \in WireMessages :
        w.valid => /\ w.log.device_id = "d1"
                   /\ w.log.log_type = "ERROR"
                   /\ w.log.time = DeviceTime}

\* the lock goroutine c holds on h.clients at this point
Held(c) ==
    IF wlock = c /\ rlock = {} THEN "write"
    ELSE IF c \in rlock THEN "read"
    ELSE "none"

\* one more access to h.clients by goroutine c: what it does, and under which lock
Access(c, op) == accesses \cup {[op |-> op, lock |-> Held(c)]}

\* one more event of connection c's handler; n numbers the messages read on c
Event(c, what) ==
    LET reads == Cardinality({i \in 1..Len(trace[c]) : trace[c][i].what = "read"})
    IN [what |-> what, n |-> IF what = "read" THEN reads + 1 ELSE reads]

Log(c, events) == [trace EXCEPT ![c] = @ \o events]

\* the program position that follows a `continue`, a `break` or falling through
Position(after) ==
    IF after = "continue" THEN "reading"
    ELSE IF after = "closing" THEN "unregister_lock"
    ELSE after

\* line 78: upgrader.Upgrade succeeded; the handler is at Lock() of line 85
Accept(c) ==
    /\ pc[c] = "new"
    /\ pc' = [pc EXCEPT ![c] = "register_lock"]
    /\ UNCHANGED <<clients, rlock, todo, clientsToRemove, cur, sent, store,
                   broken, closed, nmsgs>>
    /\ UNCHANGED <<loopErr, writer, qVars, httpVars, aggVars, stepVars>>

\* lines 63, 85, 91: h.clientsMutex.Lock() shuts out other writers and new
\* readers; the critical section runs once the readers have left
Lock(c) ==
    /\ pc[c] \in {"register_lock", "remove_lock", "unregister_lock"}
    /\ wlock = ""
    /\ wlock' = c
    /\ pc' = [pc EXCEPT ![c] = IF @ = "register_lock" THEN "register"
                               ELSE IF @ = "remove_lock" THEN "remove"
                               ELSE "unregister"]
    /\ UNCHANGED <<clients, rlock, todo, clientsToRemove, cur, sent, store,
                   broken, closed, nmsgs>>
    /\ UNCHANGED <<writing, target, accesses, trace>>
    /\ UNCHANGED <<loopErr, writer, qVars, httpVars, aggVars>>

\* lines 86-87: h.clients[conn] = true; Unlock()
Register(c) ==
    /\ pc[c] = "register"
    /\ rlock = {}
    /\ clients' = clients \cup {c}
    /\ accesses' = Access(c, "insert")
    /\ wlock' = ""
    /\ pc' = [pc EXCEPT ![c] = "log_total"]
    /\ UNCHANGED <<rlock, todo, clientsToRemove, cur, sent, store, broken,
                   closed, nmsgs>>
    /\ UNCHANGED <<writing, target, trace>>
    /\ UNCHANGED <<loopErr, writer, qVars, httpVars, aggVars>>

\* line 97: log.Printf("... Total clients: %d", len(h.clients))
LogTotal(c) ==
    /\ pc[c] = "log_total"
    /\ accesses' = Access(c, "len")
    /\ pc' = [pc EXCEPT ![c] = "reading"]
    /\ UNCHANGED <<clients, rlock, todo, clientsToRemove, cur, sent, store,
                   broken, closed, nmsgs>>
    /\ UNCHANGED <<wlock, writing, target, trace>>
    /\ UNCHANGED <<loopErr, writer, qVars, httpVars, aggVars>>

\* lines 104-126: ReadMessage, json.Unmarshal, validateLogMessage, storeLog
ReadStore(c, m, dbOk) ==
    /\ pc[c] = "reading"
    /\ nmsgs < MaxMsgs
    /\ nmsgs' = nmsgs + 1
    /\ LET logMsg == LogMsgAfterValidate(Unmarshal(m).logMsg)
       IN IF IngestError(m, dbOk) # ""
          THEN /\ pc' = [pc EXCEPT ![c] = "reject"]
               /\ trace' = Log(c, <<Event(c, "read")>>)
               /\ UNCHANGED <<store, cur>>
          ELSE /\ store' = StoreSensorReading(logMsg)
               /\ cur' = [cur EXCEPT ![c] = logMsg]
               /\ pc' = [pc EXCEPT ![c] = "ack"]
               /\ trace' = Log(c, <<Event(c, "read"),
                                    [what |-> "store", n |-> Event(c, "read").n]>>)
    /\ UNCHANGED <<clients, rlock, todo, clientsToRemove, sent, broken, closed>>
    /\ UNCHANGED <<wlock, writing, target, accesses>>
    /\ UNCHANGED <<loopErr, writer, qVars, httpVars, aggVars>>

\* lines 169-177 and 182-191: sendSuccess or sendError calls conn.WriteJSON
SendBegin(c) ==
    /\ pc[c] \in {"ack", "reject"}
    /\ writing' = [writing EXCEPT ![c] = @ \cup {c}]
    /\ pc' = [pc EXCEPT ![c] = IF @ = "ack" THEN "ack_write" ELSE "reject_write"]
    /\ UNCHANGED <<clients, rlock, todo, clientsToRemove, cur, sent, store,
                   broken, closed, nmsgs>>
    /\ UNCHANGED <<wlock, target, accesses, trace>>
    /\ UNCHANGED <<loopErr, writer, qVars, httpVars, aggVars>>

\* the WriteJSON of sendSuccess or sendError ends; lines 115, 122, 129, 133.
\* A panic leaves HandleWebSocket through its deferred func (lines 90-95).
SendEnd(c, outcome) ==
    /\ pc[c] \in {"ack_write", "reject_write"}
    /\ outcome = "nil" => CanWrite(c)
    /\ outcome = "panic" => Cardinality(writing[c]) > 1
    /\ writing' = [writing EXCEPT ![c] = @ \ {c}]
    /\ IF outcome = "panic"
       THEN /\ pc' = [pc EXCEPT ![c] = "unregister_lock"]
            /\ UNCHANGED <<broken, trace>>
       ELSE /\ broken' = AfterWrite(c, outcome = "nil")
            /\ IF pc[c] = "ack_write"
               THEN /\ pc' = [pc EXCEPT ![c] = Position(AfterAck(outcome = "nil"))]
                    /\ trace' = Log(c, <<Event(c, "ack")>>)
               ELSE /\ pc' = [pc EXCEPT ![c] = Position(AfterReject(outcome = "nil"))]
                    /\ trace' = Log(c, <<Event(c, "error")>>)
    /\ UNCHANGED <<clients, rlock, todo, clientsToRemove, cur, sent, store,
                   closed, nmsgs>>
    /\ UNCHANGED <<wlock, target, accesses>>
    /\ UNCHANGED <<loopErr, writer, qVars, httpVars, aggVars>>

\* lines 136-139 and 47: broadcastToClients is called and takes the read lock
RLock(c) ==
    /\ pc[c] = "broadcast"
    /\ wlock = ""
    /\ rlock' = rlock \cup {c}
    /\ todo' = [todo EXCEPT ![c] = BroadcastTargets(c)]
    /\ clientsToRemove' = [clientsToRemove EXCEPT ![c] = {}]
    /\ pc' = [pc EXCEPT ![c] = "iterating"]
    /\ trace' = Log(c, <<Event(c, "broadcast")>>)
    /\ UNCHANGED <<clients, cur, sent, store, broken, closed, nmsgs>>
    /\ UNCHANGED <<wlock, writing, target, accesses>>
    /\ UNCHANGED <<loopErr, writer, qVars, httpVars, aggVars>>

\* lines 52-53: the range loop yields client and calls client.WriteJSON
RangeWriteBegin(c, client) ==
    /\ pc[c] = "iterating"
    /\ client \in todo[c]
    /\ accesses' = Access(c, "range")
    /\ target' = [target EXCEPT ![c] = client]
    /\ writing' = [writing EXCEPT ![client] = @ \cup {c}]
    /\ pc' = [pc EXCEPT ![c] = "range_write"]
    /\ UNCHANGED <<clients, rlock, todo, clientsToRemove, cur, sent, store,
                   broken, closed, nmsgs>>
    /\ UNCHANGED <<wlock, trace>>
    /\ UNCHANGED <<loopErr, writer, qVars, httpVars, aggVars>>

\* lines 53-56: client.WriteJSON ends; a failed client is noted.  A panic
\* leaves broadcastToClients before the RUnlock of line 59, which is not
\* deferred, and HandleWebSocket through its deferred func (lines 90-95).
RangeWriteEnd(c, outcome) ==
    /\ pc[c] = "range_write"
    /\ outcome = "nil" => CanWrite(target[c])
    /\ outcome = "panic" => Cardinality(writing[target[c]]) > 1
    /\ writing' = [writing EXCEPT ![target[c]] = @ \ {c}]
    /\ target' = [target EXCEPT ![c] = ""]
    /\ IF outcome = "panic"
       THEN /\ pc' = [pc EXCEPT ![c] = "unregister_lock"]
            /\ UNCHANGED <<broken, clientsToRemove, todo>>
       ELSE /\ broken' = AfterWrite(target[c], outcome = "nil")
            /\ clientsToRemove' = [clientsToRemove EXCEPT ![c] =
                                      IF outcome = "nil" THEN @ ELSE @ \cup {target[c]}]
            /\ todo' = [todo EXCEPT ![c] = RestAfterWrite(@, target[c], outcome = "nil")]
            /\ pc' = [pc EXCEPT ![c] = "iterating"]
    /\ UNCHANGED <<clients, rlock, cur, sent, store, closed, nmsgs>>
    /\ UNCHANGED <<wlock, accesses, trace>>
    /\ UNCHANGED <<loopErr, writer, qVars, httpVars, aggVars>>

\* the holders of the read lock once goroutine c is past line 59
ReadLockAfterLoop(c) == rlock \ {c}

\* lines 59-62: RUnlock(), then the test len(clientsToRemove) > 0
RUnlock(c) ==
    /\ pc[c] = "iterating"
    /\ todo[c] = {}
    /\ rlock' = ReadLockAfterLoop(c)
    /\ IF clientsToRemove[c] # {}
       THEN /\ pc' = [pc EXCEPT ![c] = "remove_lock"]
            /\ UNCHANGED <<cur, trace>>
       ELSE /\ pc' = [pc EXCEPT ![c] = "reading"]
            /\ cur' = [cur EXCEPT ![c] = NoLog]
            /\ trace' = Log(c, <<Event(c, "returned")>>)
    /\ UNCHANGED <<clients, todo, clientsToRemove, sent, store, broken, closed,
                   nmsgs>>
    /\ UNCHANGED <<wlock, writing, target, accesses>>
    /\ UNCHANGED <<loopErr, writer, qVars, httpVars, aggVars>>

\* lines 64-67: the removal pass, Unlock(), and the return to the loop
Remove(c) ==
    /\ pc[c] = "remove"
    /\ rlock = {}
    /\ clients' = RemoveFailed(clients, clientsToRemove[c])
    /\ accesses' = Access(c, "delete")
    /\ wlock' = ""
    /\ clientsToRemove' = [clientsToRemove EXCEPT ![c] = {}]
    /\ cur' = [cur EXCEPT ![c] = NoLog]
    /\ pc' = [pc EXCEPT ![c] = "reading"]
    /\ trace' = Log(c, <<Event(c, "returned")>>)
    /\ UNCHANGED <<rlock, todo, sent, store, broken, closed, nmsgs>>
    /\ UNCHANGED <<writing, target>>
    /\ UNCHANGED <<loopErr, writer, qVars, httpVars, aggVars>>

\* lines 104-108: ReadMessage returns an error; break runs the deferred func
ReadBreak(c) ==
    /\ pc[c] = "reading"
    /\ pc' = [pc EXCEPT ![c] = "unregister_lock"]
    /\ UNCHANGED <<clients, rlock, todo, clientsToRemove, cur, sent, store,
                   broken, closed, nmsgs>>
    /\ UNCHANGED <<loopErr, writer, qVars, httpVars, aggVars, stepVars>>

\* as Delete, a teardown that leaves the connection in the registry
Delete_skip(c) ==
    /\ pc[c] = "unregister"
    /\ rlock = {}
    /\ accesses' = Access(c, "delete")
    /\ wlock' = ""
    /\ pc' = [pc EXCEPT ![c] = "unregistered"]
    /\ UNCHANGED <<clients, rlock, todo, clientsToRemove, cur, sent, store,
                   broken, closed, nmsgs>>
    /\ UNCHANGED <<writing, target, trace>>
    /\ UNCHANGED <<loopErr, writer, qVars, httpVars, aggVars>>

\* lines 92-93: delete(h.clients, conn); Unlock()
Delete(c) ==
    /\ pc[c] = "unregister"
    /\ rlock = {}
    /\ clients' = clients \ {c}
    /\ accesses' = Access(c, "delete")
    /\ wlock' = ""
    /\ pc' = [pc EXCEPT ![c] = "unregistered"]
    /\ UNCHANGED <<rlock, todo, clientsToRemove, cur, sent, store, broken,
                   closed, nmsgs>>
    /\ UNCHANGED <<writing, target, trace>>
    /\ UNCHANGED <<loopErr, writer, qVars, httpVars, aggVars>>

StepNext ==
    \/ \E c \in Handlers : Accept(c)
    \/ \E c \in Handlers : Lock(c)
    \/ \E c \in Handlers : Register(c)
    \/ \E c \in Handlers : LogTotal(c)
    \/ \E c \in Handlers, m \in StepMessages, dbOk \in BOOLEAN : ReadStore(c, m, dbOk)
    \/ \E c \in Handlers : SendBegin(c)
    \/ \E c \in Handlers, outcome \in WriteOutcomes : SendEnd(c, outcome)
    \/ \E c \in Handlers : RLock(c)
    \/ \E c \in Handlers, client \in Conns : RangeWriteBegin(c, client)
    \/ \E c \in Handlers, outcome \in WriteOutcomes : RangeWriteEnd(c, outcome)
    \/ \E c \in Handlers : RUnlock(c)
    \/ \E c \in Handlers : Remove(c)
    \/ \E c \in Handlers : ReadBreak(c)
    \/ \E c \in Handlers : Delete(c)
    \/ \E c \in Handlers : Close(c)

StepSpec == Init /\ [][StepNext]_vars

(***************************************************************************)
(* Every runnable goroutine is scheduled and every WriteJSON returns: each  *)
(* step of a handler is weakly fair, except the arrival of a connection,    *)
(* of a message, or of a read error.                                        *)
(***************************************************************************)
GoroutineStep(c) ==
    \/ Lock(c)
    \/ Register(c)
    \/ LogTotal(c)
    \/ SendBegin(c)
    \/ \E outcome \in WriteOutcomes : SendEnd(c, outcome)
    \/ RLock(c)
    \/ \E client \in Conns : RangeWriteBegin(c, client)
    \/ \E outcome \in WriteOutcomes : RangeWriteEnd(c, outcome)
    \/ RUnlock(c)
    \/ Remove(c)
    \/ Delete(c)
    \/ Close(c)

StepFairSpec == StepSpec /\ \A c \in Handlers : WF_vars(GoroutineStep(c))

(***************************************************************************)
(* Properties of the connection hub.                                       *)
(***************************************************************************)
\* the positions inside the for loop of HandleWebSocket
LoopPcs == {"reading", "ack", "nack", "continue", "broadcast", "iterating",
            "removing"}

\* the log_entry frame of goroutine s's current message, as written to client
EntryTo(s, client) == [to |-> client, frame |-> LogEntry(cur[s])]

\* the log_entry frames goroutine s has written
EntriesOf(s) == {e \in BagToSet(sent[s]) : e.frame.type = "log_entry"}

\* goroutine s has visited every client of its broadcast and still holds the
\* read lock (line 58)
LoopDone(s) == pc[s] = "iterating" /\ todo[s] = {}

\* row r of the table holds the reading
IsRow(r, reading) == \A f \in DOMAIN reading : r[f] = reading[f]

\* C1: the broadcast triggered by a connection's own message never writes a
\* log_entry event to that connection.
C1_NoEchoToSender ==
    \A s \in Conns : \A e \in EntriesOf(s) : e.to # s

\* C2: when the broadcast of an accepted reading has visited the registry, every
\* other registered observer whose writes succeed has received exactly one
\* log_entry event for it, carrying the device id and message of the stored
\* reading; no connection received it twice.
C2_EachOtherObserverOnce ==
    \A s \in Conns :
        /\ \A e \in EntriesOf(s) :
              /\ CopiesIn(e, sent[s]) = 1
              /\ \E r \in store : /\ IsRow(r, cur[s])
                                  /\ e.frame.data.device_id = r.device_id
                                  /\ e.frame.data.message = r.message
        /\ LoopDone(s) =>
              \A c \in clients \ {s} :
                  ~broken[c] =>
                      /\ CopiesIn(EntryTo(s, c), sent[s]) = 1
                      /\ \A e \in EntriesOf(s) : e.to = c => e = EntryTo(s, c)

\* three healthy registered observers, one of them the sender, and the broadcast
\* has reached the two others
C2_Witness ==
    \E s \in Conns :
        /\ LoopDone(s)
        /\ clients = Conns
        /\ \A c \in Conns : ~broken[c]
        /\ \A c \in Conns \ {s} : CopiesIn(EntryTo(s, c), sent[s]) = 1

\* C3: no reading with a zero timestamp is ever persisted or broadcast.
C3_NoZeroTimeStored ==
    /\ \A r \in store : r.time # ZeroTime
    /\ \A s \in Conns : \A e \in EntriesOf(s) : e.frame.data.time # ZeroTime

\* every row has a device id and a severity
StoreWellFormed == \A r \in store : r.device_id # "" /\ r.log_type # ""

\* the message lacks its device id or its severity
MissingField(m) == m.valid /\ (m.log.device_id = "" \/ m.log.log_type = "")

\* the field validate names for such a message
MissingFieldError(m) ==
    IF m.log.device_id = "" THEN "device_id is required" ELSE "log_type is required"

\* Ingest is the only step that counts a message (nmsgs) and it moves the
\* handler that takes it, so the properties below compare a step with
\* Ingest(c, ...) only when it changes nmsgs and pc[c]; Respond is the only
\* step that leaves the positions "ack" and "nack".

\* C4: a reading with an empty device id or severity is rejected with an error
\* naming the missing field and the store is not called for it; every row of
\* the store has a non-empty device id and severity.
C4_MissingFieldRejected ==
    [][ /\ StoreWellFormed'
        /\ nmsgs' # nmsgs => \A c \in Conns : pc'[c] # pc[c] =>
            \A m \in WireMessages, dbOk \in BOOLEAN :
              (MissingField(m) /\ Ingest(c, m, dbOk)) =>
                  /\ store' = store
                  /\ pc'[c] = "nack"
                  /\ loopErr'[c] = MissingFieldError(m)
        /\ \A c \in Conns :
              (pc[c] = "nack" /\ pc'[c] # pc[c] /\ Respond(c, "nil")) =>
                  /\ store' = store
                  /\ pc'[c] = "continue"
                  /\ sent'[c] = SetToBag({[to |-> c, frame |->
                              LogResponse(FALSE, "Error processing log", loopErr[c])]})
      ]_vars

\* a connection was told that log_type is required, with rows in the store
C4_Witness ==
    \E c \in Conns :
        /\ pc[c] = "continue"
        /\ store # {}
        /\ \E e \in BagToSet(sent[c]) : e.frame.error = "log_type is required"

\* C5: a message that fails decoding, validation or persistence gets exactly one
\* negative acknowledgment, written to the sender only; nothing is broadcast,
\* the registry and the store are unchanged, and the connection stays open and
\* returns to reading.
C5_FailureNackOnly ==
    [][ /\ nmsgs' # nmsgs => \A c \in Conns : pc'[c] # pc[c] =>
            \A m \in WireMessages, dbOk \in BOOLEAN :
              (IngestError(m, dbOk) # "" /\ Ingest(c, m, dbOk)) =>
                  /\ pc'[c] = "nack"
                  /\ loopErr'[c] = IngestError(m, dbOk)
                  /\ sent' = sent
                  /\ clients' = clients /\ closed' = closed /\ store' = store
                  /\ rlock' = rlock /\ todo' = todo
        /\ \A c \in Conns : (pc[c] = "nack" /\ pc'[c] # pc[c]) =>
              /\ sent'[c] \in {EmptyBag,
                                SetToBag({[to |-> c, frame |->
                                    LogResponse(FALSE, "Error processing log",
                                                loopErr[c])]})}
              /\ \A d \in Conns \ {c} : sent'[d] = sent[d]
              /\ pc'[c] = "continue"
              /\ clients' = clients /\ closed' = closed /\ store' = store
              /\ rlock' = rlock /\ todo' = todo
        /\ \A c \in Conns : pc[c] = "continue" => pc'[c] \in {"continue", "reading"}
      ]_vars

\* C6: a write to one observer that returns an error does not keep the event
\* from the others: the range loop goes on with the clients left.  At the end
\* of the loop every registered client got the event once or is marked with a
\* failed write; the removal pass removes exactly the marked ones; a removed
\* connection is never registered again and no broadcast writes to a
\* connection outside the registry.
C6_FailureIsolation ==
    [][ /\ \A s \in Conns :
              LoopDone(s)' =>
                  /\ \A c \in clients' :
                        \/ c \in clientsToRemove'[s] /\ broken'[c]
                              /\ CopiesIn(EntryTo(s, c)', sent'[s]) = 0
                        \/ c \notin clientsToRemove'[s]
                              /\ CopiesIn(EntryTo(s, c)', sent'[s]) = 1
                  /\ clientsToRemove'[s] \subseteq clients'
        /\ \A s \in Conns : todo'[s] # todo[s] =>
              \A c \in Conns :
                  BroadcastWrite(s, c, "error") =>
                      /\ pc'[s] = "iterating"
                      /\ todo'[s] = todo[s] \ {c}
                      /\ sent'[s] = sent[s]
        /\ \A s \in Conns :
              BroadcastRemove(s) => clients' = clients \ clientsToRemove[s]
        /\ \A c \in Conns : (pc[c] # "new" /\ c \notin clients) => c \notin clients'
        /\ \A s \in Conns, c \in Conns, outcome \in WriteOutcomes :
              BroadcastWrite(s, c, outcome) => c \in clients
      ]_vars

\* B's write failed in an earlier broadcast and B was removed (its handler is
\* still in its loop); a later broadcast has delivered to A and C, not to B
C6_Witness ==
    \E s \in Conns, b \in Conns :
        /\ LoopDone(s)
        /\ nmsgs = 2
        /\ broken[b] /\ b \notin clients /\ pc[b] \in LoopPcs
        /\ clients = Conns \ {b}
        /\ clientsToRemove[s] = {}
        /\ \A c \in clients : CopiesIn(EntryTo(s, c), sent[s]) = 1
        /\ \A e \in BagToSet(sent[s]) : e.to # b

\* C7: the loop is left only by a read error; after it the connection is
\* eventually out of the registry and closed.
C7_ReadErrorOnlyExit ==
    /\ [][ \A c \in Conns :
              /\ (pc[c] \in LoopPcs /\ pc'[c] \notin LoopPcs) => ReadError(c)
              /\ ReadError(c) => pc'[c] = "closing"
         ]_vars
    /\ \A c \in Conns : (pc[c] = "closing") ~> (c \notin clients /\ closed[c])

\* C8 as stated: once a write to a connection has failed, no further message
\* from that connection is stored.
C8_WriteErrorTerminates ==
    [][ \A c \in Conns, m \in WireMessages :
            broken[c] => ~(Ingest(c, m, TRUE) /\ IngestError(m, TRUE) = "")
      ]_vars

\* C8 amended: a write that returns an error never ends the loop of any
\* handler and closes nothing; a failed acknowledgment leaves the registry and
\* the store as they are, a failed broadcast write only marks the client, and
\* the removal pass removes only connections whose write has failed; a
\* connection is closed only by its own deferred teardown.
C8_WriteErrorOnlyUnregisters ==
    [][ /\ \A c \in Conns : (pc[c] \in {"ack", "nack"} /\ pc'[c] # pc[c] /\ Respond(c, "error")) =>
                  /\ clients' = clients /\ closed' = closed /\ store' = store
                  /\ pc'[c] \in LoopPcs
        /\ \A s \in Conns : todo'[s] # todo[s] =>
            \A c \in Conns :
              BroadcastWrite(s, c, "error") =>
                  /\ clients' = clients /\ closed' = closed /\ pc' = pc
                  /\ c \in clientsToRemove'[s]
        /\ \A s \in Conns :
              BroadcastRemove(s) =>
                  /\ \A c \in clients \ clients' : broken[c]
                  /\ closed' = closed
                  /\ \A c \in Conns \ {s} : pc'[c] = pc[c]
        /\ \A c \in Conns : (closed'[c] /\ ~closed[c]) => pc[c] = "unregistered"
      ]_vars

\* a connection whose write failed and that a broadcast removed from the
\* registry has had a further message stored and is about to broadcast it
C8_Witness ==
    \E c \in Conns :
        /\ broken[c] /\ c \notin clients /\ ~closed[c]
        /\ pc[c] = "broadcast"
        /\ \E r \in store : IsRow(r, cur[c])

(***************************************************************************)
(* Properties of the classifier.                                           *)
(***************************************************************************)
\* the number of terms of a lexicon that occur in the text
Hits(lexicon, text) ==
    Cardinality({i \in DOMAIN lexicon : Contains(text, lexicon[i])})

\* C9: classify returns data_query exactly when the lower-cased text has
\* strictly more structured-lexicon hits than pattern-lexicon hits; every tie,
\* zero hits on both sides included, returns pattern_search.
C9_StructuredIffStrictlyMore ==
    queryType # "" =>
        queryType = IF Hits(dataKeywords, ToLower(query))
                          > Hits(patternKeywords, ToLower(query))
                    THEN "data_query" ELSE "pattern_search"

\* a tie with hits on both sides was classified pattern_search
C9_Witness ==
    /\ queryType = "pattern_search"
    /\ Hits(dataKeywords, ToLower(query)) = Hits(patternKeywords, ToLower(query))
    /\ Hits(dataKeywords, ToLower(query)) > 0

\* a further occurrence of a structured keyword was added to a text that was
\* classified data_query
AddedToStructured == added.k # <<>> /\ prevType = "data_query"

\* the occurrence was added as a word of its own in front of the text or at
\* its end, a space between them
AddedAsWordAtAnEnd ==
    \/ added.at = 0 /\ added.before = <<>> /\ added.after = <<" ">>
    \/ /\ added.at = Len(query) - Len(added.k) - 1
       /\ added.before = <<" ">> /\ added.after = <<>>

\* C10 as stated: a text classified data_query is still classified data_query
\* with one more occurrence of any structured-lexicon keyword, wherever the
\* occurrence is added.
C10_Monotone ==
    AddedToStructured => queryType = "data_query"

\* C10 amended: a text classified data_query is still classified data_query
\* when any structured-lexicon keyword is added to it as a word of its own in
\* front of the text or at its end, separated from it by a space.
C10_MonotoneAsWord ==
    (AddedToStructured /\ AddedAsWordAtAnEnd) => queryType = "data_query"

\* "show me", which also holds the pattern keyword "how", was added at the end
\* of a text classified data_query that had no pattern hit
C10_Witness ==
    /\ added.k = dataKeywords[1]
    /\ added.at > 0
    /\ AddedAsWordAtAnEnd
    /\ prevType = "data_query"
    /\ queryType = "data_query"
    /\ Hits(patternKeywords, ToLower(query)) = 1

(***************************************************************************)
(* Properties of the AI endpoints.                                         *)
(***************************************************************************)
\* the response to a natural-language query carries the result of a generated
\* query
SqlAnswered == resp.op = "query" /\ resp.status = 200 /\ resp.json.result.kind = "sql"

\* C11: no successful response carries the result of a generated query on a
\* time-bucketed source whose projection lacks the bucket column: such a query is
\* rejected before it is executed.
C11_BucketColumnRequired ==
    (SqlAnswered /\ resp.json.result.sql.from \in Views) =>
        /\ BucketColumn(resp.json.result.sql.from) \in resp.json.result.sql.cols
        /\ \A i \in DOMAIN resp.json.result.result :
              BucketColumn(resp.json.result.sql.from) \in DOMAIN resp.json.result.result[i]

\* a response that reports the failure of an embedding: an error, no
\* nearest-neighbour query and no call of any other collaborator
EmbeddingFailure(r) ==
    /\ r.status = 500
    /\ r.json = NoEnvelope
    /\ r.calls \subseteq {"CreateEmbeddings"}

\* C14: when the embedding collaborator fails (no API key, API error, empty
\* embedding list), a search returns an error, issues no nearest-neighbour
\* query and falls back to no other search; a question routed to the pattern
\* search fails in the same way.
C14_EmbeddingFailureFatal ==
    (/\ resp.op \in {"search", "query"}
     /\ served.req = "ok"
     /\ query # <<>>
     /\ served.emb # "ok"
     /\ resp.op = "query" => determineQueryType(query) = "pattern_search")
    => EmbeddingFailure(resp)

\* a search has failed on the embedding request itself
C14_Witness ==
    /\ resp.op = "search"
    /\ resp.status = 500
    /\ resp.calls = {"CreateEmbeddings"}

\* a question routed to the pattern search has failed without an API key
C14_WitnessPattern ==
    /\ resp.op = "query"
    /\ resp.status = 500
    /\ resp.calls = {}

\* a search request that reached the nearest-neighbour query, which ran
\* without error and found no row
ZeroHits ==
    /\ resp.op = "search"
    /\ served.req = "ok"
    /\ query # <<>>
    /\ served.emb = "ok"
    /\ served.db = "ok"
    /\ served.n = 0

\* C15: a search whose nearest-neighbour query returns zero rows succeeds: the
\* envelope has success = true, an empty result list, count 0 and no error.
C15_ZeroHitsSucceeds ==
    ZeroHits =>
        /\ resp.status = 200
        /\ resp.contentType = "application/json"
        /\ resp.json.success = TRUE
        /\ resp.json.error = ""
        /\ resp.json.result.kind = "search"
        /\ resp.json.result.results = <<>>
        /\ resp.json.result.count = 0

\* a search has been answered after its query found no row
C15_Witness == ZeroHits /\ resp.status = 200 /\ "db.Query(searchQuery)" \in resp.calls

\* a well-formed request whose operation failed
OperationFailed == resp # NoResponse /\ served.req = "ok" /\ resp.status = 500

\* C16: for every failure of a query, search, summary or anomaly operation the
\* caller receives the response envelope with success = false, no payload and a
\* non-empty error string.
C16_FailureEnvelope ==
    OperationFailed =>
        /\ resp.contentType = "application/json"
        /\ resp.json.success = FALSE
        /\ resp.json.result = NoResult
        /\ resp.json.error # ""

(***************************************************************************)
(* Properties of the read endpoints.                                       *)
(***************************************************************************)
\* the record a reading is read back as under the round-trip rule: the
\* ingested timestamp, or the substituted current time when it was zero
ReadBack(log) == [log EXCEPT !.time = IF @ = ZeroTime THEN NowTime ELSE @]

\* equal on device id, severity, message and timestamp
SameReading(a, b) ==
    /\ a.device_id = b.device_id
    /\ a.log_type = b.log_type
    /\ a.message = b.message
    /\ a.time = b.time

\* C17: after a reading is stored through the ingestion channel, reading the
\* recent readings back (with a limit that covers the table) yields a record
\* with the same device id, severity and message, and with the ingested
\* timestamp or, when that was zero, the substituted current time.
C17_RoundTrip ==
    [][(pc[Device] = "reading" /\ pc'[Device] = "ack") =>
         \A m \in AllWireMessages, dbOk \in BOOLEAN :
            (Ingest(Device, m, dbOk) /\ IngestError(m, dbOk) = "") =>
               \A read \in GetRecentSensorReadings(store', Cardinality(store'), "ok") :
                  \E i \in DOMAIN read.logs : SameReading(read.logs[i], ReadBack(m.log))]_vars

\* C18: the by-device read returns the readings stored through the ingestion
\* channel for that device, and only those (here with the default limit, which
\* covers the table).
C18_DeviceReadReturnsStored ==
    [][(resp = NoResponse /\ resp' # NoResponse /\ resp'.op = "device_logs") =>
         \A deviceID \in DeviceIDs \ {""} :
            (/\ deviceLogsHandler("ok", deviceID, 0, "ok")
             /\ Cardinality(store) <= DefaultDeviceLogsLimit)
            => {resp'.logs[i] : i \in DOMAIN resp'.logs}
                  = {DbLogEntry(row) : row \in {r \in store : r.device_id = deviceID}}]_vars

\* C19: every reading with an empty message and no numeric value is rejected
\* and never persisted.
C19_EmptyMessageNeedsValue ==
    \A row \in store : row.message = "" => row.raw_value # NilValue

(***************************************************************************)
(* Properties of the rollup pipeline.                                      *)
(***************************************************************************)
\* the pipeline raw -> 5-minute -> hourly -> daily
Pipeline == <<"sensor_readings", "five_min_sensor_averages",
              "hourly_sensor_averages", "daily_sensor_averages">>

\* C20: the rollups form the ordered pipeline raw -> 5-minute -> hourly ->
\* daily: every refresh of a numeric tier reads only the tier directly below
\* it, only the 5-minute tier and the activity summary read the raw readings,
\* each tier's refresh interval is strictly longer than that of the tier below
\* it, and so no tier has been refreshed more often than the tier below it
\* once the due jobs of a minute have run.
C20_OrderedPipeline ==
    /\ \A i \in 2..Len(Pipeline) :
          lastRead[Pipeline[i]] \in {"", Pipeline[i - 1]}
    /\ lastRead["daily_device_activity"] \in {"", "sensor_readings"}
    /\ \A v \in Views :
          lastRead[v] = "sensor_readings" =>
             v \in {"five_min_sensor_averages", "daily_device_activity"}
    /\ \A i \in 3..Len(Pipeline) :
          /\ schedule_interval(Pipeline[i]) > schedule_interval(Pipeline[i - 1])
          /\ Due = {} => runs[Pipeline[i]] <= runs[Pipeline[i - 1]]

\* every tier has been refreshed from the tier below it, the daily tier twice
C20_Witness ==
    /\ \A i \in 2..Len(Pipeline) : lastRead[Pipeline[i]] = Pipeline[i - 1]
    /\ lastRead["daily_device_activity"] = "sensor_readings"
    /\ runs["daily_sensor_averages"] = 2
    /\ runs["hourly_sensor_averages"] > runs["daily_sensor_averages"]
    /\ runs["five_min_sensor_averages"] > runs["hourly_sensor_averages"]

(***************************************************************************)
(* Properties of the classifier's score and of the routing.                *)
(***************************************************************************)
\* the number of places of text at which term occurs
Occurrences(text, term) ==
    Cardinality({i \in 1..(Len(text) - Len(term) + 1) :
                    SubSeq(text, i, i + Len(term) - 1) = term})

RECURSIVE OccurrenceScore(_, _, _)
\* the occurrences in text of the terms of lexicon from the i-th on
OccurrenceScore(lexicon, text, i) ==
    IF i > Len(lexicon) THEN 0
    ELSE Occurrences(text, lexicon[i]) + OccurrenceScore(lexicon, text, i + 1)

\* C24: the score the classifier computes for each lexicon is the number of
\* occurrences of the lexicon's terms in the lower-cased text (a term that
\* appears k times contributes k hits), and the classification is the one
\* those scores give.
C24_ScoreCountsOccurrences ==
    queryType # "" =>
        LET queryLower == ToLower(query)
            dataHits == OccurrenceScore(dataKeywords, queryLower, 1)
            patternHits == OccurrenceScore(patternKeywords, queryLower, 1)
        IN /\ CountMatches(queryLower, dataKeywords) = dataHits
           /\ CountMatches(queryLower, patternKeywords) = patternHits
           /\ queryType = IF dataHits > patternHits THEN "data_query"
                          ELSE "pattern_search"

\* the claim's example: two occurrences of one structured term and one of one
\* pattern term are classified data_query
C24_ExampleStructured ==
    (/\ queryType # ""
     /\ OccurrenceScore(dataKeywords, ToLower(query), 1) = 2
     /\ Occurrences(ToLower(query), dataKeywords[4]) = 2
     /\ OccurrenceScore(patternKeywords, ToLower(query), 1) = 1)
    => queryType = "data_query"

\* a well-formed question has been answered by the query endpoint
QueryServed == resp.op = "query" /\ served.req = "ok" /\ query # <<>>

\* the collaborator calls of the two backends
SqlBackendCalls == {"CreateChatCompletion", "db.Query(sqlQuery)"}
SearchBackendCalls == {"CreateEmbeddings", "db.Query(searchQuery)"}

\* C25: the query operation routes each question to exactly one backend, chosen
\* by the classifier alone: a data_query question goes to SQL generation and
\* never calls the embedding collaborator, a pattern_search question goes to
\* the semantic search with limit 10 and never calls SQL generation.
C25_OneBackendByClassifier ==
    QueryServed =>
        IF determineQueryType(query) = "data_query"
        THEN /\ "CreateChatCompletion" \in resp.calls
             /\ resp.calls \subseteq SqlBackendCalls
             /\ resp.status = 200 => resp.json.result.kind = "sql"
        ELSE /\ resp.calls \subseteq SearchBackendCalls
             /\ resp.status = 200 =>
                   /\ resp.json.result.kind = "pattern"
                   /\ resp.json.result.relevant_logs
                         = SearchSimilarLogs(query, 10, served.emb, served.db,
                                             served.n, served.k).response.result.results
             /\ performSemanticSearch(query, "ok", "ok", 11, 11).response.result.log_count = 10

\* a question with a pattern keyword only was answered by the semantic search
C25_Witness ==
    /\ QueryServed
    /\ determineQueryType(query) = "pattern_search"
    /\ resp.status = 200
    /\ resp.calls = SearchBackendCalls
    /\ resp.json.result.log_count = MaxRows

\* a question with more structured keywords was answered by the generated SQL
C25_WitnessStructured ==
    /\ QueryServed
    /\ determineQueryType(query) = "data_query"
    /\ resp.status = 200
    /\ resp.calls = SqlBackendCalls

(***************************************************************************)
(* Properties of the rows of the views.                                    *)
(***************************************************************************)
\* the raw readings with a numeric value
NumericReadings == {r \in store : r.raw_value # NilValue}

\* the row of a numeric tier is up to date: it is the row the tier's query
\* selects now, and every tier below holds, for the row's bucket, what its
\* query selects from the tier below it
UpToDate(v, row) ==
    /\ row \in ViewQuery(v, Relation(ViewSource(v)))
    /\ Group(mat["five_min_sensor_averages"], BucketWidth(v), "bucket", row)
          = Group(FiveMinQuery(store), BucketWidth(v), "bucket", row)
    /\ v = "daily_sensor_averages" =>
          Group(mat["hourly_sensor_averages"], 1440, "bucket", row)
             = Group(RollupQuery(mat["five_min_sensor_averages"], 60), 1440, "bucket", row)

\* row holds the average, minimum, maximum and count of the values of the
\* readings g
AggregatesOf(row, g) ==
    /\ FracEq(row.avg_value, Frac(Sum([r \in g |-> r.raw_value[1]]), Cardinality(g)))
    /\ row.min_value = SetMin({r.raw_value[1] : r \in g})
    /\ row.max_value = SetMax({r.raw_value[1] : r \in g})
    /\ row.reading_count = Cardinality(g)

\* C26: for every hour bucket, device type and location the row of the hourly
\* tier holds the average, minimum, maximum and count of the raw readings with
\* a numeric value in that hour, and the row of the daily tier those of that
\* day, however the readings are spread over the 5-minute buckets.
C26_RollupEqualsRaw ==
    \A v \in {"hourly_sensor_averages", "daily_sensor_averages"} :
        \A row \in mat[v] :
            UpToDate(v, row) =>
                AggregatesOf(row, Group(NumericReadings, BucketWidth(v), "time", row))

\* C27: for every day, device type and location the row of the activity
\* summary holds the number of raw readings of the bucket and the numbers of
\* those whose level is ERROR, WARN or WARNING, and INFO.
C27_ActivityCounts ==
    \A row \in mat["daily_device_activity"] :
        row \in ActivityQuery(store) =>
            LET g == Group(store, 1440, "time", row)
            IN /\ row.total_readings = Cardinality(g)
               /\ row.error_count = Cardinality({r \in g : r.log_type = "ERROR"})
               /\ row.warning_count
                     = Cardinality({r \in g : r.log_type \in {"WARN", "WARNING"}})
               /\ row.info_count = Cardinality({r \in g : r.log_type = "INFO"})

(***************************************************************************)
(* Properties of the hub's locking, checked statement by statement.        *)
(***************************************************************************)
\* C21: every read and every write of the connection registry, in any
\* goroutine, is made while that goroutine holds the registry lock: the
\* iteration under the read lock, insertions and deletions under the write
\* lock, and nothing (reading the size included) without the lock.
C21_RegistryAccessLocked ==
    \A a \in accesses :
        /\ a.lock # "none"
        /\ a.op \in {"insert", "delete"} => a.lock = "write"

\* C28: at any instant at most one goroutine is writing to a given
\* connection: a broadcast's write to connection X never overlaps another
\* broadcast's write to X, nor X's own handler writing its reply to X.
C28_OneWriterPerConnection ==
    \A x \in Conns : Cardinality(writing[x]) <= 1

\* C22: broadcast is two-phase.  While any goroutine holds the read lock the
\* registry is not mutated; a failed observer is only recorded, by the write
\* that failed, in the list of that broadcast (which starts empty); the
\* removal pass requests the write lock only after the broadcast has released
\* its read lock, and deletes exactly the connections recorded, no other.
C22_TwoPhaseBroadcast ==
    [][/\ rlock # {} => clients' = clients
       /\ \A c \in Handlers :
             /\ pc[c] \in {"remove_lock", "remove"} => c \notin rlock
             /\ pc[c] = "broadcast" /\ pc'[c] = "iterating" =>
                   clientsToRemove'[c] = {}
             /\ ~(clientsToRemove'[c] \subseteq clientsToRemove[c]) =>
                   /\ pc[c] = "range_write" /\ c \in rlock
                   /\ clientsToRemove'[c] = clientsToRemove[c] \cup {target[c]}
                   /\ broken'[target[c]]
             /\ pc[c] = "remove" /\ pc'[c] # "remove" =>
                   clients' = clients \ clientsToRemove[c]]_vars

\* a removal pass has run: a connection whose handler is still in its loop
\* was dropped from the registry after a failed write, another one was kept
C22_Witness ==
    \E x \in Handlers, y \in Handlers :
        /\ pc[x] = "reading" /\ broken[x] /\ x \notin clients
        /\ y \in clients

\* C29: a broadcast never writes to a connection that its handler's deferred
\* cleanup has closed: the connection in a broadcast's WriteJSON, and every
\* registered connection a broadcast holding the read lock has still to
\* visit, is not closed; a closed connection is no longer in the registry.
C29_NoBroadcastWriteToClosed ==
    /\ \A c \in Handlers : pc[c] = "range_write" => ~closed[target[c]]
    /\ \A c \in rlock : \A client \in todo[c] : ~closed[client]
    /\ \A x \in clients : ~closed[x]

\* a broadcast is inside WriteJSON of a client while another connection's
\* teardown has already closed that connection
C29_Witness ==
    \E c \in Handlers, x \in Handlers :
        /\ pc[c] = "range_write" /\ target[c] # x
        /\ closed[x]

\* the event a handler's next event may be: an accepted message is stored,
\* acknowledged, broadcast, and the broadcast returns; a rejected one is
\* answered with an error; then the next message is read
Follows ==
    {<<"read", "store">>, <<"store", "ack">>, <<"ack", "broadcast">>,
     <<"broadcast", "returned">>, <<"returned", "read">>,
     <<"read", "error">>, <<"error", "read">>}

\* C23: on each connection the messages are processed one at a time, in
\* arrival order and to completion: an accepted message is stored, then
\* acknowledged to the sender, then broadcast, and the next message of the
\* connection is read only after that broadcast has returned; so stores and
\* acknowledgments of a connection follow the order of its messages.
C23_OneMessageAtATime ==
    \A c \in Handlers :
        /\ Len(trace[c]) > 0 => trace[c][1] = [what |-> "read", n |-> 1]
        /\ \A i \in 1..(Len(trace[c]) - 1) :
              /\ <<trace[c][i].what, trace[c][i + 1].what>> \in Follows
              /\ trace[c][i + 1].n = IF trace[c][i + 1].what = "read"
                                     THEN trace[c][i].n + 1
                                     ELSE trace[c][i].n
        /\ pc[c] \in {"ack", "ack_write", "broadcast", "iterating",
                      "range_write", "remove_lock", "remove"} =>
              /\ \E r \in store : IsRow(r, cur[c])
              /\ trace[c] # <<>>
              /\ trace[c][Len(trace[c])].what \in {"store", "ack", "broadcast"}

\* a connection's second message is acknowledged after the broadcast of its
\* first one returned
C23_Witness ==
    \E c \in Handlers : \E i \in 1..Len(trace[c]), j \in 1..Len(trace[c]) :
        /\ i < j
        /\ trace[c][i] = [what |-> "returned", n |-> 1]
        /\ trace[c][j] = [what |-> "ack", n |-> 2]

\* goroutine c has called h.clientsMutex.Lock() and it has not returned, or
\* c is in the critical section Lock() leads to
WantsWrite(c) ==
    pc[c] \in {"register_lock", "register", "remove_lock", "remove",
               "unregister_lock", "unregister"}

\* goroutine c is inside a register, a message or a teardown
Busy(c) == pc[c] \notin {"new", "reading", "closed"}

\* C30: the hub does not deadlock on the registry lock.  No goroutine
\* requests the write lock while it holds the read lock, and a goroutine
\* holding the read lock is inside the range loop and requests no lock;
\* when every goroutine is scheduled and every connection write returns,
\* every request of the write lock and of the read lock is granted and
\* every register, message and teardown runs to its end.
C30_NoDeadlockOnRegistryLock ==
    /\ [](\A c \in Handlers :
            /\ WantsWrite(c) => c \notin rlock
            /\ c \in rlock => pc[c] \in {"iterating", "range_write"})
    /\ \A c \in Handlers :
          /\ WantsWrite(c) ~> ~WantsWrite(c)
          /\ (pc[c] = "broadcast") ~> (c \in rlock)
          /\ Busy(c) ~> ~Busy(c)

====
